---- MODULE Spec2Model ----
(***************************************************************************)
(* A model of the timetable ingestion of sqrl-server.                      *)
(*                                                                         *)
(*  Spec     the scheduler worker (services/data_sync.py) driving the      *)
(*           document-store source (sqrl/data/sources/__init__.py and      *)
(*           sqrl/data/sources/utsg.py) against a changing upstream API.   *)
(*  SpecRel  the relational find-or-create sync (sqrl/data_sync.py) run by *)
(*           two concurrent transactions.                                  *)
(*  SpecNorm single calls of the functions of the normalizer, of the       *)
(*           scraper and of sqrl/utils.py.                                 *)
(*  SpecCli  the "sync" command (sqrl/cli.py).                             *)
(*  SpecTT   one timetable mutation of the GraphQL API                     *)
(*           (sqrl/graphql/schemas/timetable.py) against a stored          *)
(*           timetable collection.                                         *)
(*  SpecTTSync  section mutations of one timetable between syncs that      *)
(*           rewrite the course (Course.section_codes is cached).          *)
(***************************************************************************)
EXTENDS Integers, Sequences, FiniteSets, TLC

VARIABLES
    \* ---- upstream API (environment) ----
    upLanding,      \* re.findall result on the landing page's onclick: <<>> or <<code>>
    upOrgs,         \* body of /api/orgs
    upCourses,      \* org code -> body of /api/{session}/courses?org={code}
    upChanges,      \* number of upstream changes so far (bounded)
    \* ---- worker process (services/data_sync.py) ----
    proc,           \* position of the worker process
    activeJobs,     \* number of _sync_job invocations that have started and not returned
    boots,          \* number of process starts so far (bounded)
    source,         \* DATASET_SOURCES['utsg-timetable']: its session and _organisations
    orgIdx,         \* _get_all_courses: number of organisations crawled so far
    courses,        \* _get_all_courses: the accumulated list of parsed Course objects
    wIdx,           \* sync: index of the course being written
    wStep,          \* _sync_course: index of the next write of that course
    lastError,      \* the exception that ended the process, or NoError
    \* ---- document store (MongoDB collections) ----
    orgDocs,        \* the Organisation collection
    courseDocs,     \* the Course collection
    \* ---- history (read by the properties only) ----
    lastPayload,    \* composite id -> last payload whose Course was saved
    lastOrgSaved,   \* organisation code -> last Organisation object saved
    runOK,          \* Course objects the current run fetched and parsed without error
    cleanRuns,      \* completed runs of this source object since upstream last changed
    storeSnap,      \* the store after the first such run
    overwritten,    \* primary keys whose stored document a save replaced by a different one
    \* ---- relational store and the runs of sync_from_file (sqrl/data_sync.py) ----
    relStore,       \* the committed rows of the organisation and course tables
    rfile,          \* run -> the courses_data the run loaded from its file
    rpc,            \* run -> position of the run
    ridx,           \* run -> index of the course_data being converted
    rnew,           \* run -> whether the current course / organisation object is new
    rpend,          \* run -> the rows the run's transaction has flushed and not committed
    rerr,           \* run -> the exception that ended the run, or NoError
    rflushes,       \* run -> number of flushes the run has made (history)
    \* ---- one call of a function of the normalizer or of the scraper ----
    fnName,         \* the function called
    fnIn,           \* its argument
    fnOut,          \* its result (Return or Raise) once the call has been made
    fnDone,         \* whether the call has been made
    \* ---- the "sync" command (sqrl/cli.py) ----
    cliPc,          \* position of the command's process
    yes,            \* the --yes flag
    confirmation,   \* _sync_command's local: None until it is assigned
    dataset_sources,\* DATASET_SOURCES: per source, what its sync(db) will do
    cliSynced,      \* number of sources whose sync(db) has been called
    cliReport,      \* the failures written to the terminal, in order
    cliExit,        \* the exit status of the process, None while it runs
    \* ---- timetables and the GraphQL API process ----
    ttDocs,         \* the UserTimetable collection
    ttCreated,      \* number of UserTimetable documents created so far (bounded)
    sectionCodesCache, \* the lru_cache of Course.section_codes in the API process
    ttOut           \* the last mutation called: its arguments and its outcome

vars == << upLanding, upOrgs, upCourses, upChanges, proc, activeJobs, boots,
           source, orgIdx, courses, wIdx, wStep, lastError, orgDocs, courseDocs,
           lastPayload, lastOrgSaved, runOK, cleanRuns, storeSnap, overwritten,
           relStore, rfile, rpc, ridx, rnew, rpend, rerr, rflushes,
           fnName, fnIn, fnOut, fnDone,
           cliPc, yes, confirmation, dataset_sources, cliSynced, cliReport, cliExit,
           ttDocs, ttCreated, sectionCodesCache, ttOut >>

docVars == << upLanding, upOrgs, upCourses, upChanges, proc, activeJobs, boots,
              source, orgIdx, courses, wIdx, wStep, lastError, orgDocs, courseDocs,
              lastPayload, lastOrgSaved, runOK, cleanRuns, storeSnap, overwritten >>
relVars == << relStore, rfile, rpc, ridx, rnew, rpend, rerr, rflushes >>
fnVars == << fnName, fnIn, fnOut, fnDone >>
cliVars == << cliPc, yes, confirmation, dataset_sources, cliSynced, cliReport, cliExit >>
ttVars == << ttDocs, ttCreated, sectionCodesCache, ttOut >>

upVars    == << upLanding, upOrgs, upCourses >>
jobVars   == << orgIdx, courses, wIdx, wStep >>
storeVars == << orgDocs, courseDocs >>
histVars  == << lastPayload, lastOrgSaved, runOK, cleanRuns, storeSnap, overwritten >>

-----------------------------------------------------------------------------
(* Bounds of the model *)

MaxUpstreamChanges == 2
MaxBoots == 2

-----------------------------------------------------------------------------
(* Python values *)

None == "None"
NoError == "NoError"
Raise(e) == [ok |-> FALSE, err |-> e]
Return(v) == [ok |-> TRUE, val |-> v]

\* The first failure among a tuple of results, or the tuple of their values
FirstError(rs) ==
    IF \E i \in 1..Len(rs) : ~rs[i].ok
    THEN rs[CHOOSE i \in 1..Len(rs) : ~rs[i].ok /\ \A j \in 1..(i - 1) : rs[j].ok]
    ELSE Return([i \in 1..Len(rs) |-> rs[i].val])

Digits == {"0", "1", "2", "3", "4", "5", "6", "7", "8", "9"}

\* int(c) for a one-character numeric string
DigitVal(c) ==
    CASE c = "0" -> 0 [] c = "1" -> 1 [] c = "2" -> 2 [] c = "3" -> 3 [] c = "4" -> 4
      [] c = "5" -> 5 [] c = "6" -> 6 [] c = "7" -> 7 [] c = "8" -> 8 [] c = "9" -> 9

\* A character that str.isnumeric() accepts and int() rejects: U+00BD, one half
Half == "1/2"
NumericChars == Digits \cup {Half}

\* str.isnumeric() on a string given as a tuple of characters
IsNumeric(s) == Len(s) > 0 /\ \A i \in 1..Len(s) : s[i] \in NumericChars

\* ''.join(chars)
RECURSIVE Join(_)
Join(s) == IF s = <<>> THEN "" ELSE Head(s) \o Join(Tail(s))

\* str.zfill(width) on a tuple of characters
RECURSIVE ZFill(_, _)
ZFill(s, width) == IF Len(s) >= width THEN s ELSE ZFill(<<"0">> \o s, width)

\* a str compared with an int by == is never equal
StrEqInt(c, n) == FALSE

-----------------------------------------------------------------------------
(* TimetableSession: sqrl/data/sources/__init__.py *)

\* A str is [t |-> "str", v |-> <<characters>>], an int is [t |-> "int", v |-> n].
PyStr(chars) == [t |-> "str", v |-> chars]
PyInt(n) == [t |-> "int", v |-> n]

TimetableSession(year, summer) == [year |-> year, summer |-> summer]

\* TimetableSession.code: f'{self.year.zfill(4)}{suffix}'; int has no zfill
SessionCode(session) ==
    LET suffix == IF session.summer THEN "5" ELSE "9"
    IN  IF session.year.t = "str"
        THEN Return(ZFill(session.year.v, 4) \o <<suffix>>)
        ELSE Raise("AttributeError")

\* Mutant: the last digit is not checked
ParseSessionAnySuffix(session_code) ==
    IF Len(session_code) # 5 THEN Raise("ValueError")
    ELSE IF ~IsNumeric(session_code) THEN Raise("ValueError")
    ELSE Return(TimetableSession(PyStr(SubSeq(session_code, 1, 4)),
                                 StrEqInt(session_code[Len(session_code)], 5)))

\* TimetableSession.parse
ParseSession(session_code) ==
    IF Len(session_code) # 5 THEN Raise("ValueError")
    ELSE IF ~IsNumeric(session_code) THEN Raise("ValueError")
    ELSE IF session_code[Len(session_code)] \notin Digits THEN Raise("ValueError")
    ELSE IF DigitVal(session_code[Len(session_code)]) \notin {9, 5} THEN Raise("ValueError")
    ELSE Return(TimetableSession(PyStr(SubSeq(session_code, 1, 4)),
                                 StrEqInt(session_code[Len(session_code)], 5)))

\* _get_latest_session(verify=False): matches is re.findall(r"\d{5}") on the onclick
GetLatestSession(matches) ==
    IF Len(matches) = 0 THEN Raise("ValueError")
    ELSE ParseSession(matches[1])

\* _get_all_organisations: the response either has the "orgs" key or not
GetAllOrganisations(data) ==
    IF ~data.hasOrgs THEN Raise("ValueError")
    ELSE Return([i \in 1..Len(data.orgs) |->
                    [code |-> data.orgs[i].code, name |-> data.orgs[i].name]])

\* UTSG_ArtsSci_TimetableDatasetSource.__init__(session=None)
ConstructSource(matches, data) ==
    LET s == GetLatestSession(matches)
        o == GetAllOrganisations(data)
    IN  IF ~s.ok THEN s
        ELSE IF ~o.ok THEN o
        ELSE Return([session |-> s.val, organisations |-> o.val])

-----------------------------------------------------------------------------
(* Enumerations: sqrl/models/timetable.py *)

MeetingDay == {"MO", "TU", "WE", "TH", "FR", "SA", "SU"}
SectionTeachingMethod == {"LEC", "TUT", "PRA"}
SectionDeliveryMode == {"CLASS", "ONLSYNC", "ONLASYNC", "INPER", "SYNC", "ASYNC", "ASYIF", "SYNIF"}
CourseTerm == {"F", "S", "Y"}
CampusStGeorge == "UTSG"

\* Mutant: a value that is no member is passed through
EnumConvertLenient(enum, value) == Return(value)

\* Enum(value): the member with that value, ValueError when there is none
EnumConvert(enum, value) == IF value \in enum THEN Return(value) ELSE Raise("ValueError")

\* sqrl/utils.py nullable_convert, for the enumeration conversions
NullableConvert(value, enum) == IF value = None THEN Return(None) ELSE EnumConvert(enum, value)

-----------------------------------------------------------------------------
(* Conversions of the normalizer: sqrl/utils.py and _convert_time *)

\* None where the value may also be a str or an int
PyNone == [t |-> "NoneType", v |-> <<>>]

\* The number a tuple of decimal digits writes
RECURSIVE DecimalValue(_)
DecimalValue(digits) ==
    IF digits = <<>> THEN 0
    ELSE 10 * DecimalValue(SubSeq(digits, 1, Len(digits) - 1)) + DigitVal(digits[Len(digits)])

\* int(s) for a str: an optional sign and at least one decimal digit
IntOfString(chars) ==
    LET signed == Len(chars) > 0 /\ chars[1] \in {"-", "+"}
        digits == IF signed THEN Tail(chars) ELSE chars
    IN  IF Len(digits) = 0 \/ \E i \in 1..Len(digits) : digits[i] \notin Digits
        THEN Raise("ValueError")
        ELSE Return(IF signed /\ chars[1] = "-" THEN 0 - DecimalValue(digits)
                    ELSE DecimalValue(digits))

\* int(value)
PyIntOf(value) ==
    IF value.t = "int" THEN Return(value.v)
    ELSE IF value.t = "str" THEN IntOfString(value.v)
    ELSE Raise("TypeError")

\* int_or_none: nullable_convert(value, int)
IntOrNone(value) ==
    IF value.t = "NoneType" THEN Return(value)
    ELSE LET n == PyIntOf(value) IN IF n.ok THEN Return(PyInt(n.val)) ELSE n

\* str.split(sep): the pieces between the separators, always at least one
RECURSIVE Split(_, _)
Split(chars, sep) ==
    IF \A i \in 1..Len(chars) : chars[i] # sep THEN <<chars>>
    ELSE LET k == CHOOSE i \in 1..Len(chars) :
                      chars[i] = sep /\ \A j \in 1..(i - 1) : chars[j] # sep
         IN  <<SubSeq(chars, 1, k - 1)>> \o Split(SubSeq(chars, k + 1, Len(chars)), sep)

\* models.Time(hour=..., minute=...)
Time(hour, minute) == [hour |-> hour, minute |-> minute]

\* _convert_time: parts = [int(part) for part in time.split(':')], then parts[0], parts[1]
ConvertTime(time) ==
    LET pieces == Split(time, ":")
        parts  == FirstError([i \in 1..Len(pieces) |-> IntOfString(pieces[i])])
    IN  IF ~parts.ok THEN parts
        ELSE IF Len(parts.val) < 2 THEN Raise("IndexError")
        ELSE Return(Time(parts.val[1], parts.val[2]))

-----------------------------------------------------------------------------
(* Payload normalizer: sqrl/data/sources/utsg.py *)

\* dict.get(key, default) and dict[key] on a JSON object given as a record
Get(payload, key, default) == IF key \in DOMAIN payload THEN payload[key] ELSE default
Item(payload, key) == IF key \in DOMAIN payload THEN Return(payload[key]) ELSE Raise("KeyError")

\* A JSON array and a JSON object, the latter by its values in order
List(items) == [t |-> "list", items |-> items]
Dict(items) == [t |-> "dict", items |-> items]

\* container.values()
Values(container) ==
    IF container.t = "dict" THEN Return(container.items) ELSE Raise("AttributeError")

\* Mutant: the empty list is left as it is
EmptyListKept(container) == container

\* if container == []: container = {}
EmptyListAsDict(container) ==
    IF container.t = "list" /\ container.items = <<>> THEN Dict(<<>>) ELSE container

\* _parse_instructor
ParseInstructor(payload) ==
    LET first == Item(payload, "firstName")
        last  == Item(payload, "lastName")
    IN  IF ~first.ok THEN first
        ELSE IF ~last.ok THEN last
        ELSE Return([first_name |-> first.val, last_name |-> last.val])

\* Mutant: only a missing day makes a meeting incomplete
MeetingIncompleteDayOnly(day, start_time, end_time) == day = None

\* day is None or start_time is None or end_time is None
MeetingIncomplete(day, start_time, end_time) ==
    day = None \/ start_time.t = "NoneType" \/ end_time.t = "NoneType"

\* self._convert_time(value): None has no split
ConvertTimeOf(value) ==
    IF value.t = "str" THEN ConvertTime(value.v) ELSE Raise("AttributeError")

\* The loop of _parse_schedule over the meetings of the schedule
RECURSIVE ParseMeetings(_)
ParseMeetings(items) ==
    IF items = <<>> THEN Return(<<>>)
    ELSE LET meeting_data == Head(items)
             day        == Get(meeting_data, "meetingDay", None)
             start_time == Get(meeting_data, "meetingStartTime", PyNone)
             end_time   == Get(meeting_data, "meetingEndTime", PyNone)
         IN  IF MeetingIncomplete(day, start_time, end_time)
             THEN ParseMeetings(Tail(items))
             ELSE LET d    == EnumConvert(MeetingDay, day)
                      st   == ConvertTimeOf(start_time)
                      et   == ConvertTimeOf(end_time)
                      rest == ParseMeetings(Tail(items))
                  IN  IF ~d.ok THEN d
                      ELSE IF ~st.ok THEN st
                      ELSE IF ~et.ok THEN et
                      ELSE IF ~rest.ok THEN rest
                      ELSE Return(<<[day             |-> d.val,
                                     start_time      |-> st.val,
                                     end_time        |-> et.val,
                                     assigned_room_1 |-> Get(meeting_data, "assignedRoom1", None),
                                     assigned_room_2 |-> Get(meeting_data, "assignedRoom2", None)]>>
                                  \o rest.val)

\* _parse_schedule
ParseSchedule(payload) ==
    LET items == Values(payload)
    IN  IF ~items.ok THEN items ELSE ParseMeetings(items.val)

\* _parse_section; the statements and the keyword arguments in the order written
ParseSection(payload) ==
    LET ivalues     == Values(EmptyListAsDict(Get(payload, "instructors", List(<<>>))))
        instructors == IF ~ivalues.ok THEN ivalues
                       ELSE FirstError([i \in 1..Len(ivalues.val) |->
                                           ParseInstructor(ivalues.val[i])])
        meetings    == ParseSchedule(EmptyListAsDict(Get(payload, "schedule", List(<<>>))))
        tm          == NullableConvert(Get(payload, "teachingMethod", None), SectionTeachingMethod)
        number      == Item(payload, "sectionNumber")
        subtitle    == Item(payload, "subtitle")
        dm          == NullableConvert(Get(payload, "deliveryMode", None), SectionDeliveryMode)
        capacity    == IntOrNone(Get(payload, "enrollmentCapacity", PyNone))
        enrolment   == IntOrNone(Get(payload, "actualEnrolment", PyNone))
        waitlist    == IntOrNone(Get(payload, "actualWaitlist", PyNone))
    IN  IF ~instructors.ok THEN instructors
        ELSE IF ~meetings.ok THEN meetings
        ELSE IF ~tm.ok THEN tm
        ELSE IF ~number.ok THEN number
        ELSE IF ~subtitle.ok THEN subtitle
        ELSE IF ~dm.ok THEN dm
        ELSE IF ~capacity.ok THEN capacity
        ELSE IF ~enrolment.ok THEN enrolment
        ELSE IF ~waitlist.ok THEN waitlist
        ELSE Return([teaching_method     |-> tm.val,
                     section_number      |-> number.val,
                     subtitle            |-> subtitle.val,
                     instructors         |-> instructors.val,
                     meetings            |-> meetings.val,
                     delivery_mode       |-> dm.val,
                     cancelled           |-> Get(payload, "cancel", None) = "Cancelled",
                     has_waitlist        |-> Get(payload, "waitlist", None) = "Y",
                     enrolment_capacity  |-> capacity.val,
                     actual_enrolment    |-> enrolment.val,
                     actual_waitlist     |-> waitlist.val,
                     enrolment_indicator |-> Get(payload, "enrollmentIndicator", None)])

\* self._organisations[code]: the cached Organisation object, KeyError when absent
OrganisationLookup(organisations, code) ==
    IF \E i \in 1..Len(organisations) : organisations[i].code = code
    THEN Return(organisations[CHOOSE i \in 1..Len(organisations) : organisations[i].code = code])
    ELSE Raise("KeyError")

\* '{}-{}-{}'.format(code, section, session)
FullCode(code, section, session) == code \o "-" \o section \o "-" \o session

\* _parse_course; the keyword arguments are evaluated in the order written
ParseCourse(organisations, payload) ==
    LET org      == OrganisationLookup(organisations, payload.org)
        term     == EnumConvert(CourseTerm, payload.section)
        sections == FirstError([i \in 1..Len(payload.meetings) |-> ParseSection(payload.meetings[i])])
    IN  IF ~org.ok THEN org
        ELSE IF ~term.ok THEN term
        ELSE IF ~sections.ok THEN sections
        ELSE Return([id           |-> FullCode(payload.code, payload.section, payload.session),
                     organisation |-> org.val,
                     code         |-> payload.code,
                     title        |-> payload.courseTitle,
                     term         |-> term.val,
                     session_code |-> payload.session,
                     sections     |-> sections.val,
                     campus       |-> CampusStGeorge])

\* The body of /api/{session}/courses?org=...: the upstream's courses of that session
CoursesResponse(sessionCode, body) ==
    [i \in 1..Len(body) |-> [code |-> body[i].code, section |-> body[i].section,
                             session |-> Join(sessionCode), org |-> body[i].org,
                             courseTitle |-> body[i].courseTitle,
                             meetings |-> body[i].meetings]]

\* _get_courses_in_organsisation, given the response body
GetCoursesInOrganisation(organisations, response) ==
    FirstError([i \in 1..Len(response) |-> ParseCourse(organisations, response[i])])

-----------------------------------------------------------------------------
(* Document store: Document.save() of a document with a primary key *)

\* The stored form of a Course: the organisation is a reference by primary key
CourseDoc(course) == [course EXCEPT !.organisation = course.organisation.code]
OrganisationDoc(org) == org

\* Mutant: the stored section list is extended, not replaced
SaveAppendSections(collection, doc, pk) ==
    IF \E d \in collection : d[pk] = doc[pk]
    THEN LET old == CHOOSE d \in collection : d[pk] = doc[pk]
         IN  (collection \ {old}) \cup
             {IF "sections" \in DOMAIN doc
              THEN [doc EXCEPT !.sections = old.sections \o doc.sections]
              ELSE doc}
    ELSE collection \cup {doc}

\* Mutant: every save inserts, also when the primary key is already stored
SaveInsertOnly(collection, doc, pk) == collection \cup {doc}

\* Mutant: sections of the stored document that the new one lacks are kept
SaveMergeSections(collection, doc, pk) ==
    IF \E d \in collection : d[pk] = doc[pk]
    THEN LET old == CHOOSE d \in collection : d[pk] = doc[pk]
         IN  (collection \ {old}) \cup
             {IF "sections" \in DOMAIN doc
              THEN [doc EXCEPT !.sections =
                      doc.sections \o SelectSeq(old.sections,
                          LAMBDA x : \A i \in 1..Len(doc.sections) : doc.sections[i] # x)]
              ELSE doc}
    ELSE collection \cup {doc}

\* Mutant: a save leaves the collection with nothing but the saved document
SaveDroppingOthers(collection, doc, pk) == {doc}

\* save(): replace the stored document with that primary key, insert when none
Save(collection, doc, pk) ==
    IF \E d \in collection : d[pk] = doc[pk]
    THEN (collection \ {CHOOSE d \in collection : d[pk] = doc[pk]}) \cup {doc}
    ELSE collection \cup {doc}

\* Mutant: the course is saved before its organisation
SyncCourseWritesCourseFirst == <<"course", "organisation">>

\* _sync_course: the writes of one course, in the order made
SyncCourseWrites == <<"organisation", "course">>

-----------------------------------------------------------------------------
(* The upstream API's possible answers *)

S20219 == <<"2", "0", "2", "1", "9">>
S20225 == <<"2", "0", "2", "2", "5">>
S20221 == <<"2", "0", "2", "2", "1">>

\* re.findall of searchCourses('DDDDD') in the search button's onclick
Landings == {<<>>, <<S20219>>, <<S20225>>, <<S20221>>}

OrgCodes == {"CSC", "MAT"}
CSC1 == [code |-> "CSC", name |-> "Computer Science"]
CSC2 == [code |-> "CSC", name |-> "Comp Sci"]
MAT1 == [code |-> "MAT", name |-> "Mathematics"]

\* Bodies of /api/orgs: without the "orgs" key, and with one or two organisations
OrgsBody(entries) == [hasOrgs |-> TRUE, orgs |-> entries]
OrgsBodies ==
    {[hasOrgs |-> FALSE, orgs |-> <<>>],
     OrgsBody(<<CSC1>>),
     OrgsBody(<<CSC1, MAT1>>),
     OrgsBody(<<CSC2, MAT1>>),
     OrgsBody(<<MAT1, CSC1>>)}

SecLEC == [teachingMethod |-> "LEC", sectionNumber |-> "0101", subtitle |-> ""]
SecTUT == [teachingMethod |-> "TUT", sectionNumber |-> "0101", subtitle |-> ""]

RawCourse(code, section, org, title, meetings) ==
    [code |-> code, section |-> section, org |-> org, courseTitle |-> title,
     meetings |-> meetings]

\* Two versions of one course, a course of another organisation, and a course
\* whose term literal is no CourseTerm
CSC108a == RawCourse("CSC108H1", "F", "CSC", "Intro", <<SecLEC, SecTUT>>)
CSC108b == RawCourse("CSC108H1", "F", "CSC", "Intro to Programming", <<SecLEC>>)
MAT137  == RawCourse("MAT137Y1", "Y", "MAT", "Calculus", <<SecLEC>>)
MAT137x == RawCourse("MAT137Y1", "X", "MAT", "Calculus", <<>>)

\* Bodies of /api/{session}/courses?org=...
CoursesBodies ==
    {<<>>, <<CSC108a>>, <<CSC108b>>, <<MAT137>>, <<MAT137x>>, <<CSC108a, MAT137>>}

-----------------------------------------------------------------------------
(* Initial state: the worker is not running and the store is empty *)

\* The configured dataset source: <<>> before it is constructed, else <<source>>
NoSource == <<>>
Src == source[1]
EmptyStore == [orgs |-> {}, courses |-> {}]
Store == [orgs |-> orgDocs, courses |-> courseDocs]
EmptyMap == [x \in {} |-> None]
MapPut(f, k, v) == [x \in DOMAIN f \cup {k} |-> IF x = k THEN v ELSE f[x]]

\* The raw course_data entries of the JSON files given to sync_from_file
RelCourseData(courseId, org, orgName, title, section, meetings) ==
    [courseId |-> courseId, org |-> org, orgName |-> orgName,
     courseTitle |-> title, section |-> section, meetings |-> meetings]

RC1  == RelCourseData(1, "CSC", "Computer Science", "Intro", "F", <<"LEC-0101", "TUT-0101">>)
RC1b == RelCourseData(1, "CSC", "Comp Sci", "Intro to Programming", "F", <<"LEC-0101">>)
RC2  == RelCourseData(2, "CSC", "Computer Science", "Theory", "S", <<"LEC-0101">>)
RC3x == RelCourseData(3, "MAT", "Mathematics", "Calculus", "X", <<>>)

\* The files: an empty one, and ones that share course ids and organisation codes
RelFiles == {<<>>, <<RC1>>, <<RC1b, RC2>>, <<RC2, RC3x>>}

\* The processes that run sync_from_file against the same database
Runs == {"runA", "runB"}

EmptyRel == [orgs |-> {}, courses |-> {}]
NoPending == [orgs |-> {}, courses |-> {}]

\* The upstream API before the process starts
UpstreamInit ==
    /\ upLanding = <<S20219>>
    /\ upOrgs = OrgsBody(<<CSC1, MAT1>>)
    /\ upCourses = [o \in OrgCodes |-> IF o = "CSC" THEN <<CSC108a>> ELSE <<MAT137>>]

\* The worker, its source and the document store before the process starts
WorkerInit ==
    /\ upChanges = 0
    /\ proc = "down"
    /\ activeJobs = 0
    /\ boots = 0
    /\ source = NoSource
    /\ orgIdx = 0
    /\ courses = <<>>
    /\ wIdx = 1
    /\ wStep = 1
    /\ lastError = NoError
    /\ lastPayload = EmptyMap
    /\ lastOrgSaved = EmptyMap
    /\ runOK = <<>>
    /\ cleanRuns = 0
    /\ storeSnap = EmptyStore
    /\ overwritten = {}

\* The Organisation and Course collections before the first sync
StoreInit ==
    /\ orgDocs = {}
    /\ courseDocs = {}

DocInit == UpstreamInit /\ WorkerInit /\ StoreInit

\* The relational store before any run, each run holding the file it was given
RelInit(files) ==
    /\ relStore = EmptyRel
    /\ rfile = files
    /\ rpc = [r \in Runs |-> "idle"]
    /\ ridx = [r \in Runs |-> 1]
    /\ rnew = [r \in Runs |-> [course |-> FALSE, org |-> FALSE]]
    /\ rpend = [r \in Runs |-> NoPending]
    /\ rerr = [r \in Runs |-> NoError]
    /\ rflushes = [r \in Runs |-> 0]

\* No call of a single function is being made
NoCall ==
    /\ fnName = "none"
    /\ fnIn = <<>>
    /\ fnOut = <<>>
    /\ fnDone = FALSE

\* The "sync" command is not being run
NoCommand ==
    /\ cliPc = "none"
    /\ yes = FALSE
    /\ confirmation = FALSE
    /\ dataset_sources = <<>>
    /\ cliSynced = 0
    /\ cliReport = <<>>
    /\ cliExit = <<>>

\* No mutation has been called
NoMutation == [op |-> "none"]

\* The API process has served no request and no timetable exists
NoTimetables ==
    /\ ttDocs = {}
    /\ ttCreated = 0
    /\ sectionCodesCache = EmptyMap
    /\ ttOut = NoMutation

Init == DocInit /\ RelInit([r \in Runs |-> <<>>]) /\ NoCall /\ NoCommand /\ NoTimetables

-----------------------------------------------------------------------------
(* The upstream changes at any time, whatever the worker is doing *)

InRun == proc \in {"crawl", "write"}

\* A change during a run taints that run (-1); otherwise the count restarts
UpstreamChanged ==
    /\ UNCHANGED relVars
    /\ UNCHANGED fnVars
    /\ UNCHANGED cliVars
    /\ UNCHANGED ttVars
    /\ upChanges < MaxUpstreamChanges
    /\ upChanges' = upChanges + 1
    /\ cleanRuns' = IF InRun THEN -1 ELSE 0
    /\ storeSnap' = EmptyStore
    /\ UNCHANGED << proc, activeJobs, boots, source, jobVars, lastError, storeVars,
                    lastPayload, lastOrgSaved, runOK, overwritten >>

UpstreamSetLanding ==
    /\ \E m \in Landings \ {upLanding} : upLanding' = m
    /\ UpstreamChanged
    /\ UNCHANGED << upOrgs, upCourses >>

UpstreamSetOrgs ==
    /\ \E b \in OrgsBodies \ {upOrgs} : upOrgs' = b
    /\ UpstreamChanged
    /\ UNCHANGED << upLanding, upCourses >>

UpstreamSetCourses ==
    /\ \E o \in OrgCodes : \E b \in CoursesBodies \ {upCourses[o]} :
          upCourses' = [upCourses EXCEPT ![o] = b]
    /\ UpstreamChanged
    /\ UNCHANGED << upLanding, upOrgs >>

-----------------------------------------------------------------------------
(* The worker process: services/data_sync.py *)

ResetJob ==
    /\ orgIdx' = 0
    /\ courses' = <<>>
    /\ wIdx' = 1
    /\ wStep' = 1

\* An exception leaves _sync_job and the schedule loop: the process ends
Crash(err) ==
    /\ proc' = "crashed"
    /\ lastError' = err
    /\ activeJobs' = 0
    /\ ResetJob

\* create_app(): loading the configuration constructs the dataset source, which
\* resolves the session and fetches the organisations
Boot ==
    /\ UNCHANGED relVars
    /\ UNCHANGED fnVars
    /\ UNCHANGED cliVars
    /\ UNCHANGED ttVars
    /\ proc \in {"down", "crashed"}
    /\ boots < MaxBoots
    /\ boots' = boots + 1
    /\ cleanRuns' = 0
    /\ storeSnap' = EmptyStore
    /\ LET r == ConstructSource(upLanding, upOrgs)
       IN  IF r.ok
           THEN /\ source' = <<r.val>>
                /\ proc' = "poll"
                /\ lastError' = NoError
                /\ activeJobs' = 0
                /\ ResetJob
           ELSE /\ source' = NoSource
                /\ Crash(r.err)
    /\ UNCHANGED << upVars, upChanges, storeVars, lastPayload, lastOrgSaved, runOK,
                    overwritten >>

\* Mutant: the job runs in a thread of its own and the loop keeps polling
CanRunPendingWhileJobRuns == proc \in {"poll", "crawl", "write"}

\* The loop calls schedule.run_pending() between two sleeps, and run_pending
\* returns when the job it ran has returned
CanRunPending == proc = "poll"

\* schedule.run_pending() when the clock has not reached the job's next run
RunPendingIdle ==
    /\ UNCHANGED relVars
    /\ UNCHANGED fnVars
    /\ UNCHANGED cliVars
    /\ UNCHANGED ttVars
    /\ CanRunPending
    /\ proc' = "sleep"
    /\ UNCHANGED << upVars, upChanges, activeJobs, boots, source, jobVars, lastError,
                    storeVars, histVars >>

Sleep ==
    /\ UNCHANGED relVars
    /\ UNCHANGED fnVars
    /\ UNCHANGED cliVars
    /\ UNCHANGED ttVars
    /\ proc = "sleep"
    /\ proc' = "poll"
    /\ UNCHANGED << upVars, upChanges, activeJobs, boots, source, jobVars, lastError,
                    storeVars, histVars >>

\* schedule.run_pending() when the clock has reached the job's next run:
\* _sync_job starts, source.sync(db)
StartJob ==
    /\ UNCHANGED relVars
    /\ UNCHANGED fnVars
    /\ UNCHANGED cliVars
    /\ UNCHANGED ttVars
    /\ CanRunPending
    /\ proc' = "crawl"
    /\ activeJobs' = activeJobs + 1
    /\ ResetJob
    /\ runOK' = <<>>
    /\ UNCHANGED << upVars, upChanges, boots, source, lastError, storeVars,
                    lastPayload, lastOrgSaved, cleanRuns, storeSnap, overwritten >>

-----------------------------------------------------------------------------
(* TimetableDatasetSource.sync: crawl and parse everything, then write *)

CrawlOrg == Src.organisations[orgIdx + 1].code
CrawlResponse == CoursesResponse(SessionCode(Src.session).val, upCourses[CrawlOrg])
Crawling == proc = "crawl" /\ orgIdx < Len(Src.organisations)

\* The payloads of a response that parse without error
ParsableOf(response) ==
    SelectSeq(response, LAMBDA p : ParseCourse(Src.organisations, p).ok)

\* _get_courses_in_organsisation: the request succeeds and every payload parses
FetchOrg ==
    /\ UNCHANGED relVars
    /\ UNCHANGED fnVars
    /\ UNCHANGED cliVars
    /\ UNCHANGED ttVars
    /\ Crawling
    /\ SessionCode(Src.session).ok
    /\ LET r == GetCoursesInOrganisation(Src.organisations, CrawlResponse)
       IN  /\ r.ok
           /\ courses' = courses \o r.val
    /\ runOK' = runOK \o CrawlResponse
    /\ orgIdx' = orgIdx + 1
    /\ UNCHANGED << upVars, upChanges, proc, activeJobs, boots, source, wIdx, wStep,
                    lastError, storeVars, lastPayload, lastOrgSaved, cleanRuns,
                    storeSnap, overwritten >>

\* _get_courses_in_organsisation: a payload of the response fails to parse
FetchOrgParseError ==
    /\ UNCHANGED relVars
    /\ UNCHANGED fnVars
    /\ UNCHANGED cliVars
    /\ UNCHANGED ttVars
    /\ Crawling
    /\ SessionCode(Src.session).ok
    /\ LET r == GetCoursesInOrganisation(Src.organisations, CrawlResponse)
       IN  /\ ~r.ok
           /\ Crash(r.err)
    /\ runOK' = runOK \o ParsableOf(CrawlResponse)
    /\ UNCHANGED << upVars, upChanges, boots, source, storeVars,
                    lastPayload, lastOrgSaved, cleanRuns, storeSnap, overwritten >>

\* _get_courses_in_organsisation: requests.get(...).json() raises
FetchOrgRequestError ==
    /\ UNCHANGED relVars
    /\ UNCHANGED fnVars
    /\ UNCHANGED cliVars
    /\ UNCHANGED ttVars
    /\ Crawling
    /\ Crash(IF SessionCode(Src.session).ok THEN "RequestException"
             ELSE SessionCode(Src.session).err)
    /\ UNCHANGED << upVars, upChanges, boots, source, storeVars, histVars >>

\* Mutant: the writes start when the courses of one organisation are fetched
AllFetchedAfterOne == orgIdx >= 1

\* The loop of _get_all_courses has gone through every organisation
AllFetched == orgIdx = Len(Src.organisations)

\* _get_all_courses returns; sync starts writing
CrawlDone ==
    /\ UNCHANGED relVars
    /\ UNCHANGED fnVars
    /\ UNCHANGED cliVars
    /\ UNCHANGED ttVars
    /\ proc = "crawl"
    /\ AllFetched
    /\ proc' = "write"
    /\ UNCHANGED << upVars, upChanges, activeJobs, boots, source, jobVars, lastError,
                    storeVars, histVars >>

\* _sync_course: one save() of the course being written
WriteStep ==
    /\ UNCHANGED relVars
    /\ UNCHANGED fnVars
    /\ UNCHANGED cliVars
    /\ UNCHANGED ttVars
    /\ proc = "write"
    /\ wIdx <= Len(courses)
    /\ LET course == courses[wIdx]
       IN  IF SyncCourseWrites[wStep] = "organisation"
           THEN /\ orgDocs' = Save(orgDocs, OrganisationDoc(course.organisation), "code")
                /\ lastOrgSaved' = MapPut(lastOrgSaved, course.organisation.code,
                                          course.organisation)
                /\ overwritten' = overwritten \cup
                      {d.code : d \in {e \in orgDocs : e.code = course.organisation.code
                                                       /\ e # OrganisationDoc(course.organisation)}}
                /\ UNCHANGED << courseDocs, lastPayload >>
           ELSE /\ courseDocs' = Save(courseDocs, CourseDoc(course), "id")
                /\ lastPayload' = MapPut(lastPayload, course.id, runOK[wIdx])
                /\ overwritten' = overwritten \cup
                      {d.id : d \in {e \in courseDocs : e.id = course.id /\ e # CourseDoc(course)}}
                /\ UNCHANGED << orgDocs, lastOrgSaved >>
    /\ IF wStep < Len(SyncCourseWrites)
       THEN wStep' = wStep + 1 /\ wIdx' = wIdx
       ELSE wStep' = 1 /\ wIdx' = wIdx + 1
    /\ UNCHANGED << upVars, upChanges, proc, activeJobs, boots, source, orgIdx, courses,
                    lastError, runOK, cleanRuns, storeSnap >>

\* _sync_course: a save() raises (the database refuses the operation or is
\* unreachable); nothing undoes the saves already made, and the run is not
\* one of the completed runs that are counted
WriteStepFails ==
    /\ UNCHANGED relVars
    /\ UNCHANGED fnVars
    /\ UNCHANGED cliVars
    /\ UNCHANGED ttVars
    /\ proc = "write"
    /\ wIdx <= Len(courses)
    /\ Crash("OperationError")
    /\ cleanRuns' = 0
    /\ storeSnap' = EmptyStore
    /\ UNCHANGED << upVars, upChanges, boots, source, storeVars, lastPayload,
                    lastOrgSaved, runOK, overwritten >>

\* sync and _sync_job return; the schedule sets the job's next run
JobReturn ==
    /\ UNCHANGED relVars
    /\ UNCHANGED fnVars
    /\ UNCHANGED cliVars
    /\ UNCHANGED ttVars
    /\ proc = "write"
    /\ wIdx > Len(courses)
    /\ proc' = "sleep"
    /\ activeJobs' = activeJobs - 1
    /\ cleanRuns' = IF cleanRuns < 0 THEN 0 ELSE IF cleanRuns < 2 THEN cleanRuns + 1 ELSE 2
    /\ storeSnap' = IF cleanRuns = 0 THEN Store ELSE storeSnap
    /\ ResetJob
    /\ UNCHANGED << upVars, upChanges, boots, source, lastError, storeVars,
                    lastPayload, lastOrgSaved, runOK, overwritten >>

-----------------------------------------------------------------------------

Next ==
    \/ UpstreamSetLanding
    \/ UpstreamSetOrgs
    \/ UpstreamSetCourses
    \/ Boot
    \/ RunPendingIdle
    \/ Sleep
    \/ StartJob
    \/ FetchOrg
    \/ FetchOrgParseError
    \/ FetchOrgRequestError
    \/ CrawlDone
    \/ WriteStep
    \/ WriteStepFails
    \/ JobReturn

Spec == Init /\ [][Next]_vars

-----------------------------------------------------------------------------
(* Properties of the document-store sync and of the worker *)

\* C1: when the same source object completes a second run with the upstream
\* unchanged since before the first, the store is what it was after the first
\* run: the same Organisation and Course records, no more and no fewer.
SyncIdempotent ==
    (cleanRuns = 2 /\ ~InRun) =>
        /\ Store = storeSnap
        /\ Cardinality(courseDocs) = Cardinality(storeSnap.courses)
        /\ Cardinality(orgDocs) = Cardinality(storeSnap.orgs)

SyncIdempotentWitness ==
    /\ cleanRuns = 2
    /\ proc = "sleep"
    /\ Cardinality(courseDocs) = 2
    /\ Cardinality(orgDocs) = 2

\* The Course fields a payload determines, as the claim states them
CourseId(p) == p.code \o "-" \o p.section \o "-" \o p.session

\* C2: the store holds at most one Course per composite id and at most one
\* Organisation per code, and each record carries the values of the payload
\* (the Organisation object) most recently synced for its key.
UpsertKeepsLatest ==
    /\ \A d, e \in courseDocs : d.id = e.id => d = e
    /\ \A d, e \in orgDocs : d.code = e.code => d = e
    /\ \A d \in courseDocs :
          /\ d.id \in DOMAIN lastPayload
          /\ d.id = CourseId(lastPayload[d.id])
          /\ d.code = lastPayload[d.id].code
          /\ d.title = lastPayload[d.id].courseTitle
          /\ d.term = lastPayload[d.id].section
          /\ d.session_code = lastPayload[d.id].session
          /\ d.organisation = lastPayload[d.id].org
    /\ \A d \in orgDocs :
          /\ d.code \in DOMAIN lastOrgSaved
          /\ d.name = lastOrgSaved[d.code].name

\* A course and an organisation that a later sync has overwritten
UpsertKeepsLatestWitness ==
    /\ \E d \in courseDocs : d.id \in overwritten /\ d.title = "Intro to Programming"
    /\ \E d \in orgDocs : d.code \in overwritten /\ d.name = "Comp Sci"

\* The sections a payload's meetings describe
SectionsOf(p) ==
    [i \in 1..Len(p.meetings) |->
        [teaching_method |-> p.meetings[i].teachingMethod,
         section_number  |-> p.meetings[i].sectionNumber]]

\* C3: the stored section list of a course is exactly the section list of the
\* newest payload synced for it; nothing of an older list is kept.
SectionsReplacedWholesale ==
    \A d \in courseDocs :
        /\ d.id \in DOMAIN lastPayload
        /\ [i \in 1..Len(d.sections) |->
               [teaching_method |-> d.sections[i].teaching_method,
                section_number  |-> d.sections[i].section_number]]
               = SectionsOf(lastPayload[d.id])

\* A stored course that lost the tutorial its earlier payload had
SectionsReplacedWholesaleWitness ==
    \E d \in courseDocs :
        /\ d.id \in overwritten
        /\ d.code = "CSC108H1"
        /\ Len(d.sections) = 1
        /\ d.sections[1].teaching_method = "LEC"

\* C4: in every state, during a run as well as after it, the organisation
\* reference of each stored Course names a stored Organisation.
NoDanglingOrganisation ==
    \A d \in courseDocs : \E o \in orgDocs : o.code = d.organisation

\* In the middle of the write phase of a run that has just written its first course
NoDanglingOrganisationWitness ==
    /\ proc = "write"
    /\ wIdx = 2
    /\ wStep = 1
    /\ Cardinality(courseDocs) = 1
    /\ Cardinality(orgDocs) = 1

\* C5: a failure confined to one item does not lose the others: when a run has
\* ended, every course it fetched whose payload is well formed is in the store.
FailureIsolated ==
    (proc = "crashed" /\ source # NoSource) =>
        \A i \in 1..Len(runOK) : \E d \in courseDocs : d.id = CourseId(runOK[i])

\* C6: each run resolves the session and fetches the organisation list: the
\* run that starts crawls with the upstream's current session and organisations.
FreshSessionAndOrganisationsPerRun ==
    [][(proc = "poll" /\ proc' = "crawl") =>
          /\ GetLatestSession(upLanding).ok
          /\ source'[1].session = GetLatestSession(upLanding).val
          /\ upOrgs.hasOrgs
          /\ source'[1].organisations = upOrgs.orgs]_vars

\* The landing page holds a valid session code, as the claim states it
ValidSessionLiteral(matches) ==
    /\ Len(matches) > 0
    /\ Len(matches[1]) = 5
    /\ \A i \in 1..5 : matches[1][i] \in Digits
    /\ matches[1][5] \in {"9", "5"}

\* C7: when the session cannot be resolved or the organisation list lacks the
\* "orgs" key, constructing the source raises, the process ends, and neither
\* then nor while it is ended is any record written.
ResolutionFailureIsFatal ==
    [][/\ (boots' = boots + 1 /\ ~(ValidSessionLiteral(upLanding) /\ upOrgs.hasOrgs)) =>
             /\ proc' = "crashed"
             /\ lastError' = "ValueError"
             /\ source' = NoSource
             /\ Store' = Store
       /\ (proc = "crashed" /\ proc' = "crashed") => Store' = Store]_vars

\* A process start that failed on an unresolvable upstream, the store of an
\* earlier process intact
ResolutionFailureIsFatalWitness ==
    /\ proc = "crashed"
    /\ source = NoSource
    /\ lastError = "ValueError"
    /\ ~(ValidSessionLiteral(upLanding) /\ upOrgs.hasOrgs)
    /\ courseDocs # {}

\* C10: the worker never has two sync jobs running at once.
SingleFlight == activeJobs <= 1

\* A job running after an earlier job of the same worker has completed
SingleFlightWitness ==
    /\ activeJobs = 1
    /\ proc = "write"
    /\ cleanRuns >= 1

-----------------------------------------------------------------------------
(* sqrl/data_sync.py: sync_from_file against a relational store.  Each run    *)
(* is one session (one transaction, autoflush on); a flush sends the pending  *)
(* INSERT / UPDATE statements to the database inside the transaction, and     *)
(* commit makes them visible to the other sessions.  The database keeps the   *)
(* keys unique (Course.id, Organisation.code), reads committed rows, and a    *)
(* write of a key waits while another transaction holds an uncommitted write  *)
(* of the same key.                                                           *)

InitRel ==
    /\ DocInit /\ NoCall /\ NoCommand /\ NoTimetables
    /\ \E files \in [Runs -> RelFiles] : RelInit(files)

\* Replace-or-add the row with the key of row
PutRow(rows, row, pk) == {d \in rows : d[pk] # row[pk]} \cup {row}

RECURSIVE PutRows(_, _, _)
PutRows(rows, new, pk) ==
    IF new = {} THEN rows
    ELSE LET row == CHOOSE d \in new : TRUE
         IN  PutRows(PutRow(rows, row, pk), new \ {row}, pk)

\* What the queries of run r see: the committed rows and r's own flushed rows
RelView(r) == [orgs    |-> PutRows(relStore.orgs, rpend[r].orgs, "code"),
               courses |-> PutRows(relStore.courses, rpend[r].courses, "id")]

RelKeys(rows, pk) == {d[pk] : d \in rows}

\* Another transaction holds an uncommitted write of the key: the statement waits
RelLocked(r, table, pk, key) ==
    \E o \in Runs \ {r} : key \in RelKeys(rpend[o][table], pk)

\* An INSERT of a key that a committed row already has
RelDuplicate(r, table, pk, key) ==
    /\ key \in RelKeys(relStore[table], pk)
    /\ key \notin RelKeys(rpend[r][table], pk)

\* A flush that shows its rows to the other sessions at once
FlushAutocommit(store, table, row, pk) ==
    [store EXCEPT ![table] = PutRow(store[table], row, pk)]

\* db.session.flush(): the committed rows stay as they are
Flush(store, table, row, pk) == store

\* db.session.commit(): the flushed rows of the run become the committed rows
Commit(store, pending) ==
    [orgs    |-> PutRows(store.orgs, pending.orgs, "code"),
     courses |-> PutRows(store.courses, pending.courses, "id")]

RelData(r) == rfile[r][ridx[r]]

\* The exception leaves sync_from_file: the process ends, the transaction rolls back
RelFail(r, err) ==
    /\ rpc' = [rpc EXCEPT ![r] = "failed"]
    /\ rerr' = [rerr EXCEPT ![r] = err]
    /\ rpend' = [rpend EXCEPT ![r] = NoPending]
    /\ UNCHANGED << relStore, rfile, ridx, rnew, rflushes >>

\* json.load and the start of the loop over courses_data
RelStart(r) ==
    /\ rpc[r] = "idle"
    /\ rpc' = [rpc EXCEPT ![r] = IF Len(rfile[r]) = 0 THEN "finish" ELSE "course_query"]
    /\ UNCHANGED << relStore, rfile, ridx, rnew, rpend, rerr, rflushes >>
    /\ UNCHANGED docVars
    /\ UNCHANGED fnVars
    /\ UNCHANGED cliVars
    /\ UNCHANGED ttVars

\* convert_course: look the course up by id, create the object if absent
RelCourseQuery(r) ==
    /\ rpc[r] = "course_query"
    /\ rnew' = [rnew EXCEPT ![r].course =
                    RelData(r).courseId \notin RelKeys(RelView(r).courses, "id")]
    /\ rpc' = [rpc EXCEPT ![r] = "org_query"]
    /\ UNCHANGED << relStore, rfile, ridx, rpend, rerr, rflushes >>
    /\ UNCHANGED docVars
    /\ UNCHANGED fnVars
    /\ UNCHANGED cliVars
    /\ UNCHANGED ttVars

\* convert_organisation's query autoflushes the new course (a row with only
\* its id), then looks the organisation up by code
RelOrgQuery(r) ==
    /\ rpc[r] = "org_query"
    /\ LET d == RelData(r)
           row == [id |-> d.courseId, organisation |-> None, title |-> None,
                   term |-> None, sections |-> <<>>]
       IN  IF rnew[r].course
           THEN /\ ~RelLocked(r, "courses", "id", d.courseId)
                /\ IF RelDuplicate(r, "courses", "id", d.courseId)
                   THEN RelFail(r, "IntegrityError")
                   ELSE /\ rpend' = [rpend EXCEPT ![r].courses = PutRow(@, row, "id")]
                        /\ relStore' = Flush(relStore, "courses", row, "id")
                        /\ rflushes' = [rflushes EXCEPT ![r] = @ + 1]
                        /\ rnew' = [rnew EXCEPT ![r].org =
                                        d.org \notin RelKeys(RelView(r).orgs, "code")]
                        /\ rpc' = [rpc EXCEPT ![r] = "org_flush"]
                        /\ UNCHANGED << rfile, ridx, rerr >>
           ELSE /\ rnew' = [rnew EXCEPT ![r].org =
                                d.org \notin RelKeys(RelView(r).orgs, "code")]
                /\ rpc' = [rpc EXCEPT ![r] = "org_flush"]
                /\ UNCHANGED << relStore, rfile, ridx, rpend, rerr, rflushes >>
    /\ UNCHANGED docVars
    /\ UNCHANGED fnVars
    /\ UNCHANGED cliVars
    /\ UNCHANGED ttVars

\* convert_organisation: set the name and flush (INSERT if new, else UPDATE)
RelOrgFlush(r) ==
    /\ rpc[r] = "org_flush"
    /\ LET d == RelData(r)
           row == [code |-> d.org, name |-> d.orgName]
       IN  /\ ~RelLocked(r, "orgs", "code", d.org)
           /\ IF rnew[r].org /\ RelDuplicate(r, "orgs", "code", d.org)
              THEN RelFail(r, "IntegrityError")
              ELSE /\ rpend' = [rpend EXCEPT ![r].orgs = PutRow(@, row, "code")]
                   /\ relStore' = Flush(relStore, "orgs", row, "code")
                   /\ rflushes' = [rflushes EXCEPT ![r] = @ + 1]
                   /\ rpc' = [rpc EXCEPT ![r] = "course_flush"]
                   /\ UNCHANGED << rfile, ridx, rnew, rerr >>
    /\ UNCHANGED docVars
    /\ UNCHANGED fnVars
    /\ UNCHANGED cliVars
    /\ UNCHANGED ttVars

\* convert_course: set the columns (the term through CourseTerm) and flush
RelCourseFlush(r) ==
    /\ rpc[r] = "course_flush"
    /\ LET d == RelData(r)
           term == EnumConvert(CourseTerm, d.section)
       IN  IF ~term.ok
           THEN RelFail(r, term.err)
           ELSE LET row == [id |-> d.courseId, organisation |-> d.org,
                            title |-> d.courseTitle, term |-> term.val,
                            sections |-> d.meetings]
                IN  /\ ~RelLocked(r, "courses", "id", d.courseId)
                    /\ rpend' = [rpend EXCEPT ![r].courses = PutRow(@, row, "id")]
                    /\ relStore' = Flush(relStore, "courses", row, "id")
                    /\ rflushes' = [rflushes EXCEPT ![r] = @ + 1]
                    /\ ridx' = [ridx EXCEPT ![r] = @ + 1]
                    /\ rpc' = [rpc EXCEPT ![r] =
                                   IF ridx[r] < Len(rfile[r]) THEN "course_query" ELSE "finish"]
                    /\ UNCHANGED << rfile, rnew, rerr >>
    /\ UNCHANGED docVars
    /\ UNCHANGED fnVars
    /\ UNCHANGED cliVars
    /\ UNCHANGED ttVars

\* The report after the loop divides by len(courses_data)
RelReportEmpty(r) ==
    /\ rpc[r] = "finish"
    /\ Len(rfile[r]) = 0
    /\ RelFail(r, "ZeroDivisionError")
    /\ UNCHANGED docVars
    /\ UNCHANGED fnVars
    /\ UNCHANGED cliVars
    /\ UNCHANGED ttVars

\* The report, then db.session.commit()
RelCommit(r) ==
    /\ rpc[r] = "finish"
    /\ Len(rfile[r]) > 0
    /\ relStore' = Commit(relStore, rpend[r])
    /\ rpend' = [rpend EXCEPT ![r] = NoPending]
    /\ rpc' = [rpc EXCEPT ![r] = "done"]
    /\ UNCHANGED << rfile, ridx, rnew, rerr, rflushes >>
    /\ UNCHANGED docVars
    /\ UNCHANGED fnVars
    /\ UNCHANGED cliVars
    /\ UNCHANGED ttVars

\* The process is stopped before its commit: the connection closes, the
\* database rolls the transaction back
RelAbort(r) ==
    /\ rpc[r] \in {"course_query", "org_query", "org_flush", "course_flush", "finish"}
    /\ rpc' = [rpc EXCEPT ![r] = "aborted"]
    /\ rpend' = [rpend EXCEPT ![r] = NoPending]
    /\ UNCHANGED << relStore, rfile, ridx, rnew, rerr, rflushes >>
    /\ UNCHANGED docVars
    /\ UNCHANGED fnVars
    /\ UNCHANGED cliVars
    /\ UNCHANGED ttVars

NextRel ==
    \/ \E r \in Runs : RelStart(r)
    \/ \E r \in Runs : RelCourseQuery(r)
    \/ \E r \in Runs : RelOrgQuery(r)
    \/ \E r \in Runs : RelOrgFlush(r)
    \/ \E r \in Runs : RelCourseFlush(r)
    \/ \E r \in Runs : RelReportEmpty(r)
    \/ \E r \in Runs : RelCommit(r)
    \/ \E r \in Runs : RelAbort(r)

SpecRel == InitRel /\ [][NextRel]_vars

-----------------------------------------------------------------------------
(* Properties of the relational sync *)

\* C8: the committed rows change only in the step that is a run's final
\* commit, and then to the store with all of that run's flushed rows put in
\* at once; a run that failed or was aborted stays so and never commits, so
\* nothing it flushed is ever visible.
SingleCommitAtomic ==
    [][ /\ relStore' # relStore =>
            \E r \in Runs : /\ rpc[r] = "finish"
                            /\ rpc'[r] = "done"
                            /\ relStore' = Commit(relStore, rpend[r])
        /\ \A r \in Runs : rpc[r] \in {"failed", "aborted"} =>
                               /\ rpc'[r] = rpc[r]
                               /\ rpend'[r] = NoPending ]_vars

\* C8 case: a run has flushed rows and then failed or was aborted, and the
\* committed store is still empty
SingleCommitAtomicWitness ==
    \E r \in Runs : /\ rpc[r] \in {"failed", "aborted"}
                    /\ rflushes[r] >= 3
                    /\ relStore = EmptyRel

\* C9: no run fails with the database's duplicate-key error (a run's INSERT
\* of a key that another run inserted after both had looked the key up and
\* found it absent).
NoRunFailsOnTheOthersInsert ==
    \A r \in Runs : ~(rpc[r] = "failed" /\ rerr[r] = "IntegrityError")

-----------------------------------------------------------------------------
(* scrape_courses.py: get_courses *)

\* A JSON object by its entries, in order
KeyedDict(entries) == [t |-> "dict", items |-> entries]
Entry(key, value) == [key |-> key, value |-> value]

\* Mutant: a later duplicate replaces the entry
GetCoursesAddOverwrite(collected, course_name, value) ==
    IF \E i \in 1..Len(collected) : collected[i].key = course_name
    THEN [i \in 1..Len(collected) |->
             IF collected[i].key = course_name THEN Entry(course_name, value) ELSE collected[i]]
    ELSE Append(collected, Entry(course_name, value))

\* if course_name in courses: continue; courses[course_name] = ... (collected is courses)
GetCoursesAdd(collected, course_name, value) ==
    IF \E i \in 1..Len(collected) : collected[i].key = course_name
    THEN collected
    ELSE Append(collected, Entry(course_name, value))

\* The loop over the course names of one organisation's response
RECURSIVE GetCoursesOfOrganisation(_, _)
GetCoursesOfOrganisation(collected, entries) ==
    IF entries = <<>> THEN collected
    ELSE GetCoursesOfOrganisation(
             GetCoursesAdd(collected, Head(entries).key, Head(entries).value), Tail(entries))

\* The loop over the organisations; an empty response is skipped
RECURSIVE GetCoursesLoop(_, _)
GetCoursesLoop(collected, responses) ==
    IF responses = <<>> THEN collected
    ELSE IF Len(Head(responses).items) = 0 THEN GetCoursesLoop(collected, Tail(responses))
    ELSE GetCoursesLoop(GetCoursesOfOrganisation(collected, Head(responses).items),
                        Tail(responses))

\* get_courses, given the responses of the organisations in iteration order
GetCourses(responses) == Return(GetCoursesLoop(<<>>, responses))

-----------------------------------------------------------------------------
(* Single calls of the functions of the normalizer and of the scraper: the    *)
(* argument is drawn in the initial state and one action makes the call.      *)

MaxCodeLen == 6

\* Every tuple of at most n characters of the alphabet
RECURSIVE StringsUpTo(_, _)
StringsUpTo(alphabet, n) ==
    IF n = 0 THEN {<<>>}
    ELSE LET shorter == StringsUpTo(alphabet, n - 1)
         IN  shorter \cup {Append(t, c) : t \in {u \in shorter : Len(u) = n - 1}, c \in alphabet}

\* The strings given to TimetableSession.parse
SessionCodes ==
    StringsUpTo({"0", "5", "9", "X", Half}, MaxCodeLen)
        \cup {<<"2", "0", "2", "0", "5">>, <<"2", "0", "1", "7", "9">>, <<"1", "2", "3">>,
              <<"2", "0", "2", "0", "X">>, <<"2", "0", "2", "0", "1">>}

\* The sessions constructed as the class declares them: year: int, summer: bool
Sessions == {TimetableSession(PyInt(y), b) : y \in {0, 1, 1966, 2017, 2020, 9999}, b \in BOOLEAN}

\* == of two Python values: values of different types are not equal
PyEq(a, b) == a.t = b.t /\ a.v = b.v

\* The dataclass's __eq__: the (year, summer) tuples are equal
SessionEq(a, b) == PyEq(a.year, b.year) /\ a.summer = b.summer

\* The call fn(input) about to be made
Call(name, input) ==
    /\ fnName = name
    /\ fnIn = input
    /\ fnOut = <<>>
    /\ fnDone = FALSE

\* The call returns or raises
Called(result) ==
    /\ ~fnDone
    /\ fnOut' = result
    /\ fnDone' = TRUE
    /\ UNCHANGED << fnName, fnIn >>
    /\ UNCHANGED docVars
    /\ UNCHANGED relVars
    /\ UNCHANGED cliVars
    /\ UNCHANGED ttVars

\* TimetableSession.parse(session_code)
CallParse ==
    /\ fnName = "parse"
    /\ Called(ParseSession(fnIn))

\* TimetableSession.parse(session.code)
CallCodeThenParse ==
    /\ fnName = "code_parse"
    /\ LET code == SessionCode(fnIn)
       IN  Called(IF code.ok THEN ParseSession(code.val) ELSE code)

MaxTimeLen == 5
MaxMeetings == 2
MaxScrapeOrgs == 3

\* The strings given to _convert_time
TimeStrings == StringsUpTo({"0", "1", "3", "8", ":", "b"}, MaxTimeLen)

\* The values given to int_or_none
IntOrNoneValues ==
    {PyNone, PyStr(<<>>), PyStr(<<"9", "8">>), PyStr(<<"7">>), PyStr(<<"0">>),
     PyStr(<<"x">>)}

\* A JSON object with some of its keys left out
Restrict(payload, keys) == [k \in keys |-> payload[k]]

T0830 == PyStr(<<"0", "8", ":", "3", "0">>)
T1100 == PyStr(<<"1", "1", ":", "0", "0">>)
TBad  == PyStr(<<"b", "a", "d">>)

\* The meeting_data objects of a schedule: some lack a key, some hold null
MeetingPayloads ==
    {Restrict(m, DOMAIN m \ drop) :
        m \in {[meetingDay |-> d, meetingStartTime |-> st, meetingEndTime |-> et,
                assignedRoom1 |-> "BA1130"] :
                   d \in {"MO", "FR", "XX"}, st \in {T0830, PyNone}, et \in {T1100, TBad}},
        drop \in {{}, {"meetingDay"}, {"meetingStartTime"}, {"meetingEndTime"}}}

\* The schedules given to _parse_schedule
Schedules ==
    {Dict(items) : items \in UNION {[1..n -> MeetingPayloads] : n \in 0..MaxMeetings}}

MeetingMO == [meetingDay |-> "MO", meetingStartTime |-> T0830, meetingEndTime |-> T1100]
MeetingXX == [meetingDay |-> "XX", meetingStartTime |-> T0830, meetingEndTime |-> T1100]
MeetingXXNoStart == [meetingDay |-> "XX", meetingEndTime |-> T1100]

\* The section payloads given to _parse_section
SectionPayloads ==
    {Restrict(p, DOMAIN p \ drop) :
        p \in {[sectionNumber |-> "0101", subtitle |-> "",
                instructors |-> ins, schedule |-> sch, teachingMethod |-> tm,
                deliveryMode |-> dm, enrollmentCapacity |-> cap,
                actualEnrolment |-> PyStr(<<"7">>), actualWaitlist |-> PyStr(<<>>)] :
                   ins \in {List(<<>>), Dict(<<>>),
                            Dict(<<[firstName |-> "Ada", lastName |-> "Lovelace"]>>)},
                   sch \in {List(<<>>), Dict(<<>>), Dict(<<MeetingMO>>), Dict(<<MeetingXX>>),
                            Dict(<<MeetingXXNoStart, MeetingMO>>)},
                   tm \in {"LEC", "ZZZ"},
                   dm \in {"CLASS", "HYBRID"},
                   cap \in {PyStr(<<"9", "8">>), PyStr(<<>>), PyNone}},
        drop \in SUBSET {"instructors", "schedule", "teachingMethod", "deliveryMode",
                         "enrollmentCapacity", "actualWaitlist"}}

\* The course payloads given to _parse_course
CoursePayloads ==
    {[code |-> "CSC108H1", section |-> term, session |-> "20219", org |-> "CSC",
      courseTitle |-> "Intro", meetings |-> meetings] :
        term \in {"F", "X"},
        meetings \in {<<>>} \cup {<<sec>> : sec \in
            {Restrict(p, DOMAIN p \ drop) :
                p \in {[sectionNumber |-> "0101", subtitle |-> "", schedule |-> sch,
                        teachingMethod |-> tm, deliveryMode |-> dm] :
                           sch \in {Dict(<<MeetingMO>>), Dict(<<MeetingXX>>),
                                    Dict(<<MeetingXXNoStart>>)},
                           tm \in {"LEC", "ZZZ"}, dm \in {"CLASS", "HYBRID"}},
                drop \in SUBSET {"teachingMethod", "deliveryMode"}}}}

\* The organisations the source holds when _parse_course is called
ParseOrganisations == <<CSC1, MAT1>>

\* The response of the i-th organisation: no courses (as [] or as {}), or the
\* named courses, each with this organisation's payload
ScrapeResponse(i, shape) ==
    [t |-> shape.t,
     items |-> [k \in 1..Len(shape.names) |->
                   Entry(shape.names[k], [code |-> shape.names[k], org |-> i])]]

ScrapeShapes ==
    {[t |-> "list", names |-> <<>>]} \cup
    {[t |-> "dict", names |-> names] :
        names \in {<<>>, <<"CSC108H1">>, <<"MAT137Y1">>, <<"CSC108H1", "MAT137Y1">>,
                   <<"MAT137Y1", "CSC108H1">>, <<"MAT137Y1", "STA130H1">>}}

\* The responses of the organisations, in iteration order, given to get_courses
ScrapeInputs ==
    {[i \in 1..n |-> ScrapeResponse(i, shapes[i])] :
        n \in 0..MaxScrapeOrgs, shapes \in [1..MaxScrapeOrgs -> ScrapeShapes]}

\* _convert_time(time)
CallConvertTime ==
    /\ fnName = "convert_time"
    /\ Called(ConvertTime(fnIn))

\* int_or_none(value)
CallIntOrNone ==
    /\ fnName = "int_or_none"
    /\ Called(IntOrNone(fnIn))

\* _parse_schedule(payload)
CallParseSchedule ==
    /\ fnName = "parse_schedule"
    /\ Called(ParseSchedule(fnIn))

\* _parse_section(payload)
CallParseSection ==
    /\ fnName = "parse_section"
    /\ Called(ParseSection(fnIn))

\* _parse_course(payload)
CallParseCourse ==
    /\ fnName = "parse_course"
    /\ Called(ParseCourse(ParseOrganisations, fnIn))

\* get_courses(session_code)
CallGetCourses ==
    /\ fnName = "get_courses"
    /\ Called(GetCourses(fnIn))

\* The functions given to nullable_convert: convert_value (value * 2) and
\* lambda x: x of tests/test_utils.py, and int
ConvertFuncs == {"convert_value", "identity", "int"}

\* func(value)
ApplyFunc(func, value) ==
    IF func = "identity" THEN Return(value)
    ELSE IF func = "int"
         THEN LET n == PyIntOf(value) IN IF n.ok THEN Return(PyInt(n.val)) ELSE n
    ELSE IF value.t = "int" THEN Return(PyInt(value.v * 2))
    ELSE IF value.t = "str" THEN Return(PyStr(value.v \o value.v))
    ELSE Raise("TypeError")

\* Mutant: func is called for None as for any other value
NullableConvertAlways(value, func) ==
    [result |-> ApplyFunc(func, value), calls |-> <<value>>]

\* nullable_convert(value, func): its result, and the arguments of the calls
\* of func it made, in order
NullableConvertCalling(value, func) ==
    IF value.t = "NoneType"
    THEN [result |-> Return(value), calls |-> <<>>]
    ELSE [result |-> ApplyFunc(func, value), calls |-> <<value>>]

\* The values given to nullable_convert: None and strs, and ints
NullableValues == IntOrNoneValues
NullableInts == {PyInt(n) : n \in {-1, 0, 2}}

\* nullable_convert(value, func)
CallNullableConvert ==
    /\ fnName = "nullable_convert"
    /\ Called(NullableConvertCalling(fnIn.value, fnIn.func))

InitNorm ==
    /\ DocInit
    /\ RelInit([r \in Runs |-> <<>>])
    /\ NoCommand
    /\ NoTimetables
    /\ \/ \E code \in SessionCodes : Call("parse", code)
       \/ \E session \in Sessions : Call("code_parse", session)
       \/ \E time \in TimeStrings : Call("convert_time", time)
       \/ \E value \in IntOrNoneValues : Call("int_or_none", value)
       \/ \E schedule \in Schedules : Call("parse_schedule", schedule)
       \/ \E payload \in SectionPayloads : Call("parse_section", payload)
       \/ \E payload \in CoursePayloads : Call("parse_course", payload)
       \/ \E responses \in ScrapeInputs : Call("get_courses", responses)
       \/ \E func \in ConvertFuncs, value \in NullableValues :
             Call("nullable_convert", [value |-> value, func |-> func])
       \/ \E func \in ConvertFuncs, value \in NullableInts :
             Call("nullable_convert", [value |-> value, func |-> func])

NextNorm ==
    \/ CallParse
    \/ CallCodeThenParse
    \/ CallConvertTime
    \/ CallIntOrNone
    \/ CallParseSchedule
    \/ CallParseSection
    \/ CallParseCourse
    \/ CallGetCourses
    \/ CallNullableConvert

SpecNorm == InitNorm /\ [][NextNorm]_vars

-----------------------------------------------------------------------------
(* Properties of the crawl, the scraper and the normalizer *)

\* C11: the courses handed to the write step hold each course id once, and
\* when the run has written them all, the stored Course of an id is the
\* first one crawled with that id.
CrawlDeduplicatedFirstSeen ==
    proc = "write" =>
        /\ \A i, j \in 1..Len(courses) : courses[i].id = courses[j].id => i = j
        /\ wIdx > Len(courses) =>
               \A i \in 1..Len(courses) :
                   (\A j \in 1..(i - 1) : courses[j].id # courses[i].id) =>
                       CourseDoc(courses[i]) \in courseDocs

\* The course names of the responses, and the first response that holds a name
ScrapeNames(responses) ==
    UNION {{responses[i].items[k].key : k \in 1..Len(responses[i].items)} :
              i \in 1..Len(responses)}
HoldsName(response, name) == \E k \in 1..Len(response.items) : response.items[k].key = name
FirstOrgWith(responses, name) ==
    CHOOSE i \in 1..Len(responses) :
        HoldsName(responses[i], name) /\ \A j \in 1..(i - 1) : ~HoldsName(responses[j], name)
ValueIn(response, name) ==
    response.items[CHOOSE k \in 1..Len(response.items) : response.items[k].key = name].value

\* C12: get_courses returns, without error, a map that holds every course
\* name of every response exactly once and nothing else, the value of a name
\* being its payload in the first organisation, in iteration order, whose
\* response holds it; empty responses add nothing.
GetCoursesFirstSeen ==
    (fnName = "get_courses" /\ fnDone) =>
        /\ fnOut.ok
        /\ \A name \in ScrapeNames(fnIn) :
              Cardinality({k \in 1..Len(fnOut.val) : fnOut.val[k].key = name}) = 1
        /\ \A k \in 1..Len(fnOut.val) :
              /\ fnOut.val[k].key \in ScrapeNames(fnIn)
              /\ fnOut.val[k].value =
                     ValueIn(fnIn[FirstOrgWith(fnIn, fnOut.val[k].key)], fnOut.val[k].key)

\* An empty first response, and a course under the second and the third organisation
GetCoursesFirstSeenWitness ==
    /\ fnName = "get_courses"
    /\ fnDone
    /\ Len(fnIn) = 3
    /\ fnIn[1].t = "list"
    /\ HoldsName(fnIn[2], "MAT137Y1")
    /\ HoldsName(fnIn[3], "MAT137Y1")
    /\ Len(fnOut.val) = 3

\* C13: parsing the code of a session with an integer year gives the session back.
SessionRoundTrip ==
    (fnName = "code_parse" /\ fnDone) =>
        /\ fnOut.ok
        /\ SessionEq(fnOut.val, fnIn)

\* A code of five decimal digits that ends in 9 or 5
ValidSessionCode(code) ==
    /\ Len(code) = 5
    /\ \A i \in 1..5 : code[i] \in Digits
    /\ code[5] \in {"9", "5"}

\* C14: parse of a valid code gives the session whose year is the integer the
\* first four digits write and whose summer flag is TRUE exactly for a last digit 5.
ParseYieldsYearAndSummer ==
    (fnName = "parse" /\ fnDone /\ ValidSessionCode(fnIn)) =>
        /\ fnOut.ok
        /\ PyEq(fnOut.val.year, PyInt(DecimalValue(SubSeq(fnIn, 1, 4))))
        /\ fnOut.val.summer = (fnIn[5] = "5")

\* C15: parse raises for every string that is not of length 5, holds a
\* character that is no digit, or does not end in 9 or 5.
ParseRejectsMalformed ==
    (fnName = "parse" /\ fnDone /\ ~ValidSessionCode(fnIn)) => ~fnOut.ok

\* A meeting_data that has a day, a start time and an end time
HasAllThree(meeting_data) ==
    /\ {"meetingDay", "meetingStartTime", "meetingEndTime"} \subseteq DOMAIN meeting_data
    /\ meeting_data.meetingDay # None
    /\ meeting_data.meetingStartTime.t # "NoneType"
    /\ meeting_data.meetingEndTime.t # "NoneType"

\* C16: when the meetings that have all three fields convert, _parse_schedule
\* returns; what it returns is those meetings, in payload order, each with a
\* day, a start time and an end time; the meetings that lack a field are
\* left out and raise nothing.
IncompleteMeetingsOmitted ==
    (fnName = "parse_schedule" /\ fnDone) =>
        LET kept == SelectSeq(fnIn.items, HasAllThree)
        IN  /\ (\A i \in 1..Len(kept) :
                    /\ kept[i].meetingDay \in MeetingDay
                    /\ ConvertTime(kept[i].meetingStartTime.v).ok
                    /\ ConvertTime(kept[i].meetingEndTime.v).ok) => fnOut.ok
            /\ fnOut.ok =>
                   /\ Len(fnOut.val) = Len(kept)
                   /\ \A i \in 1..Len(kept) :
                         /\ fnOut.val[i].day = kept[i].meetingDay
                         /\ fnOut.val[i].day \in MeetingDay
                         /\ fnOut.val[i].start_time = ConvertTime(kept[i].meetingStartTime.v).val
                         /\ fnOut.val[i].end_time = ConvertTime(kept[i].meetingEndTime.v).val
                         /\ DOMAIN fnOut.val[i].start_time = {"hour", "minute"}
                         /\ DOMAIN fnOut.val[i].end_time = {"hour", "minute"}

\* A schedule of a meeting without start time and a complete one: one meeting is returned
IncompleteMeetingsOmittedWitness ==
    /\ fnName = "parse_schedule"
    /\ fnDone
    /\ Len(fnIn.items) = 2
    /\ "meetingStartTime" \notin DOMAIN fnIn.items[1]
    /\ "meetingDay" \in DOMAIN fnIn.items[1]
    /\ HasAllThree(fnIn.items[2])
    /\ fnOut.ok
    /\ Len(fnOut.val) = 1
    /\ fnOut.val[1].day = "FR"

\* A literal under the key that is no member of the enumeration
UnknownLiteral(payload, key, enum) ==
    key \in DOMAIN payload /\ payload[key] # None /\ payload[key] \notin enum

\* The meetings of a section payload's schedule
ScheduleItems(payload) ==
    IF "schedule" \in DOMAIN payload /\ payload.schedule.t = "dict"
    THEN payload.schedule.items ELSE <<>>

\* The section payload holds an unknown literal; of the days, those of every
\* meeting or only those of the meetings that have all three fields
SectionHasUnknown(payload, everyMeeting) ==
    \/ UnknownLiteral(payload, "teachingMethod", SectionTeachingMethod)
    \/ UnknownLiteral(payload, "deliveryMode", SectionDeliveryMode)
    \/ \E i \in 1..Len(ScheduleItems(payload)) :
          /\ UnknownLiteral(ScheduleItems(payload)[i], "meetingDay", MeetingDay)
          /\ everyMeeting \/ HasAllThree(ScheduleItems(payload)[i])

CourseHasUnknown(payload, everyMeeting) ==
    \/ payload.section \notin CourseTerm
    \/ \E i \in 1..Len(payload.meetings) : SectionHasUnknown(payload.meetings[i], everyMeeting)

\* A parsed section holds members of the enumerations, or null for an absent field
SectionEnumsKnown(payload, section) ==
    /\ section.teaching_method \in SectionTeachingMethod \cup {None}
    /\ section.delivery_mode \in SectionDeliveryMode \cup {None}
    /\ "teachingMethod" \notin DOMAIN payload => section.teaching_method = None
    /\ "deliveryMode" \notin DOMAIN payload => section.delivery_mode = None
    /\ \A i \in 1..Len(section.meetings) : section.meetings[i].day \in MeetingDay

\* The statement about unknown literals, the days being those of every
\* meeting or those of the complete ones
EnumsAreStrict(everyMeeting) ==
    /\ (fnName = "parse_section" /\ fnDone) =>
          /\ SectionHasUnknown(fnIn, everyMeeting) => ~fnOut.ok
          /\ fnOut.ok => SectionEnumsKnown(fnIn, fnOut.val)
    /\ (fnName = "parse_course" /\ fnDone) =>
          /\ CourseHasUnknown(fnIn, everyMeeting) => ~fnOut.ok
          /\ ~CourseHasUnknown(fnIn, FALSE) => fnOut.ok
          /\ fnOut.ok =>
                /\ fnOut.val.term \in CourseTerm
                /\ \A i \in 1..Len(fnOut.val.sections) :
                      SectionEnumsKnown(fnIn.meetings[i], fnOut.val.sections[i])

\* C17 as stated: every teachingMethod, deliveryMode, meetingDay or term
\* literal outside its enumeration makes the parse fail.
UnknownEnumAlwaysFails == EnumsAreStrict(TRUE)

\* C17 amended: a teachingMethod, deliveryMode or term literal outside its
\* enumeration, or such a meetingDay of a meeting that has a day, a start time
\* and an end time, makes the parse fail; no parsed course holds an unknown
\* value; an absent teachingMethod or deliveryMode is no error and gives null.
UnknownEnumFailsUnlessDropped == EnumsAreStrict(FALSE)

\* A course whose only section lacks a teachingMethod and has an unknown deliveryMode
UnknownEnumFailsUnlessDroppedWitness ==
    /\ fnName = "parse_course"
    /\ fnDone
    /\ fnIn.section = "F"
    /\ Len(fnIn.meetings) = 1
    /\ "teachingMethod" \notin DOMAIN fnIn.meetings[1]
    /\ UnknownLiteral(fnIn.meetings[1], "deliveryMode", SectionDeliveryMode)
    /\ ~fnOut.ok
    /\ fnOut.err = "ValueError"

\* C18: int_or_none gives null for None and for the empty string, without
\* error, and the integer for a string of digits.
IntOrNoneNullForEmpty ==
    (fnName = "int_or_none" /\ fnDone) =>
        /\ (fnIn.t = "NoneType" \/ (fnIn.t = "str" /\ fnIn.v = <<>>)) =>
               fnOut.ok /\ fnOut.val.t = "NoneType"
        /\ (fnIn.t = "str" /\ fnIn.v # <<>> /\ \A i \in 1..Len(fnIn.v) : fnIn.v[i] \in Digits) =>
               fnOut.ok /\ PyEq(fnOut.val, PyInt(DecimalValue(fnIn.v)))

\* Two segments, each of decimal digits
WellFormedTime(time) ==
    LET pieces == Split(time, ":")
    IN  /\ Len(pieces) = 2
        /\ \A i \in 1..2 : Len(pieces[i]) > 0 /\ \A k \in 1..Len(pieces[i]) : pieces[i][k] \in Digits

\* C19: _convert_time gives the hour and the minute of a string HH:MM and
\* raises for every other string.
ConvertTimeStrict ==
    (fnName = "convert_time" /\ fnDone) =>
        IF WellFormedTime(fnIn)
        THEN /\ fnOut.ok
             /\ fnOut.val = Time(DecimalValue(Split(fnIn, ":")[1]), DecimalValue(Split(fnIn, ":")[2]))
        ELSE ~fnOut.ok

\* Two results are the same return value or the same exception
ResultEq(a, b) == a.ok = b.ok /\ IF a.ok THEN a.val = b.val ELSE a.err = b.err

\* C20: when the instructors (the schedule) of a section payload is [], {} or
\* absent, _parse_section gives the result it gives for each of the other
\* two representations, the list it produces is empty, and no error comes
\* from reading the field.
EmptyContainersAlike ==
    (fnName = "parse_section" /\ fnDone) =>
        \A k \in {"instructors", "schedule"} :
            (k \notin DOMAIN fnIn \/ fnIn[k].items = <<>>) =>
                /\ \A rep \in {List(<<>>), Dict(<<>>)} :
                      ResultEq(ParseSection(MapPut(fnIn, k, rep)), fnOut)
                /\ ResultEq(ParseSection(Restrict(fnIn, DOMAIN fnIn \ {k})), fnOut)
                /\ fnOut.ok => IF k = "instructors" THEN fnOut.val.instructors = <<>>
                               ELSE fnOut.val.meetings = <<>>
                /\ ~fnOut.ok => fnOut.err # "AttributeError"

\* A section without instructors key and with the schedule [], parsed to empty lists
EmptyContainersAlikeWitness ==
    /\ fnName = "parse_section"
    /\ fnDone
    /\ "instructors" \notin DOMAIN fnIn
    /\ "schedule" \in DOMAIN fnIn
    /\ fnIn.schedule = List(<<>>)
    /\ fnOut.ok
    /\ fnOut.val.instructors = <<>>
    /\ fnOut.val.meetings = <<>>

-----------------------------------------------------------------------------
(* sqrl/cli.py: the "sync" command.  Loading the application imports        *)
(* sqrl.config, which constructs the default dataset source and so resolves  *)
(* the session; the instance configuration then supplies DATASET_SOURCES.    *)

MaxSources == 2

\* The exit status of a process that returns, and of one that ends by a
\* ClickException or by an exception nobody caught
ExitSuccess == 0
ExitFailure == 1

\* What source.sync(db) does: it returns, or it raises one of these
SyncErrors == {"RequestException", "ValueError", "KeyError"}
SyncOutcomes == {NoError} \cup SyncErrors

\* The configured sources, by what their sync(db) will do
SourcesUpTo(n) == UNION {[1..k -> SyncOutcomes] : k \in 0..n}

\* The session was resolved and the organisations fetched when the app loaded
SessionResolved == ConstructSource(upLanding, upOrgs).ok

InitCli ==
    /\ upLanding \in Landings
    /\ upOrgs \in OrgsBodies
    /\ upCourses = [o \in OrgCodes |-> <<>>]
    /\ WorkerInit
    /\ StoreInit
    /\ RelInit([r \in Runs |-> <<>>])
    /\ NoCall
    /\ NoTimetables
    /\ cliPc = "load"
    /\ yes \in BOOLEAN
    /\ confirmation = FALSE
    /\ dataset_sources \in SourcesUpTo(MaxSources)
    /\ cliSynced = 0
    /\ cliReport = <<>>
    /\ cliExit = <<>>

\* The process ends with that status
Exit(status) ==
    /\ cliPc' = "exited"
    /\ cliExit' = <<status>>

CliFrame ==
    /\ UNCHANGED docVars
    /\ UNCHANGED relVars
    /\ UNCHANGED fnVars
    /\ UNCHANGED ttVars
    /\ UNCHANGED << yes, dataset_sources >>

\* with_appcontext: create_app() before the command's body; an exception of
\* the source's constructor ends the process
CliLoadApp ==
    /\ cliPc = "load"
    /\ IF SessionResolved
       THEN cliPc' = "command" /\ UNCHANGED cliExit
       ELSE Exit(ExitFailure)
    /\ UNCHANGED << confirmation, cliSynced, cliReport >>
    /\ CliFrame

\* confirmation: True with --yes, else the answer to click.confirm
Confirmations == IF yes THEN {TRUE} ELSE BOOLEAN

\* The answer is no: the command returns
CliDeclined ==
    /\ cliPc = "command"
    /\ FALSE \in Confirmations
    /\ confirmation' = FALSE
    /\ Exit(ExitSuccess)
    /\ UNCHANGED << cliSynced, cliReport >>
    /\ CliFrame

\* Confirmed, and len(dataset_sources) == 0: ClickException
CliNoSources ==
    /\ cliPc = "command"
    /\ confirmation' = TRUE
    /\ Len(dataset_sources) = 0
    /\ Exit(ExitFailure)
    /\ UNCHANGED << cliSynced, cliReport >>
    /\ CliFrame

\* Confirmed, and there are sources: the loop over them starts
CliStartLoop ==
    /\ cliPc = "command"
    /\ confirmation' = TRUE
    /\ Len(dataset_sources) > 0
    /\ cliPc' = "loop"
    /\ UNCHANGED << cliSynced, cliReport, cliExit >>
    /\ CliFrame

\* source.sync(db) returns: spinner.ok, the next source
CliSyncReturns ==
    /\ cliPc = "loop"
    /\ cliSynced < Len(dataset_sources)
    /\ dataset_sources[cliSynced + 1] = NoError
    /\ cliSynced' = cliSynced + 1
    /\ UNCHANGED << cliPc, confirmation, cliReport, cliExit >>
    /\ CliFrame

\* source.sync(db) raises: spinner.fail, the message, and a ClickException
\* that leaves the loop and the command
CliSyncRaises ==
    /\ cliPc = "loop"
    /\ cliSynced < Len(dataset_sources)
    /\ dataset_sources[cliSynced + 1] # NoError
    /\ cliSynced' = cliSynced + 1
    /\ cliReport' = Append(cliReport, [source |-> cliSynced + 1,
                                       error |-> dataset_sources[cliSynced + 1]])
    /\ Exit(ExitFailure)
    /\ UNCHANGED confirmation
    /\ CliFrame

\* The loop has gone through every source: the command returns
CliLoopDone ==
    /\ cliPc = "loop"
    /\ cliSynced = Len(dataset_sources)
    /\ Exit(ExitSuccess)
    /\ UNCHANGED << confirmation, cliSynced, cliReport >>
    /\ CliFrame

NextCli ==
    \/ CliLoadApp
    \/ CliDeclined
    \/ CliNoSources
    \/ CliStartLoop
    \/ CliSyncReturns
    \/ CliSyncRaises
    \/ CliLoopDone

SpecCli == InitCli /\ [][NextCli]_vars

\* C21: the command exits non-zero only when the session could not be
\* resolved; when it was resolved and the run was confirmed, sync has been
\* called on every source, every failing source is in the report, and the
\* exit status is zero.
SyncCommandExitStatus ==
    cliPc = "exited" =>
        /\ cliExit # <<ExitSuccess>> => ~SessionResolved
        /\ (SessionResolved /\ confirmation) =>
              /\ cliSynced = Len(dataset_sources)
              /\ \A i \in 1..Len(dataset_sources) :
                    dataset_sources[i] # NoError =>
                        \E j \in 1..Len(cliReport) : cliReport[j].source = i
              /\ cliExit = <<ExitSuccess>>

-----------------------------------------------------------------------------
(* Properties of sqrl/utils.py *)

\* C22: nullable_convert(value, func) returns None without calling func when
\* value is None; for every other value it calls func exactly once, with that
\* value, and its result is func's result.
NullableConvertCallsOnce ==
    (fnName = "nullable_convert" /\ fnDone) =>
        IF fnIn.value.t = "NoneType"
        THEN /\ fnOut.calls = <<>>
             /\ fnOut.result.ok
             /\ fnOut.result.val.t = "NoneType"
        ELSE /\ Len(fnOut.calls) = 1
             /\ PyEq(fnOut.calls[1], fnIn.value)
             /\ fnOut.result.ok = ApplyFunc(fnIn.func, fnIn.value).ok
             /\ fnOut.result.ok => PyEq(fnOut.result.val, ApplyFunc(fnIn.func, fnIn.value).val)
             /\ ~fnOut.result.ok => fnOut.result.err = ApplyFunc(fnIn.func, fnIn.value).err

\* nullable_convert(2, convert_value) has been called, as in the test
NullableConvertCallsOnceWitness ==
    /\ fnName = "nullable_convert"
    /\ fnDone
    /\ fnIn.func = "convert_value"
    /\ fnIn.value.t = "int"
    /\ fnIn.value.v = 2
    /\ Len(fnOut.calls) = 1
    /\ fnOut.result.ok
    /\ fnOut.result.val.v = 4

-----------------------------------------------------------------------------
(* sqrl/models/timetable.py: Section.code and Course.section_codes.  A code   *)
(* is the str f'{teaching_method.value}-{section_number}', kept as its three  *)
(* pieces; no SectionTeachingMethod value holds a '-'.                        *)

\* Section.code
SectionCode(section) ==
    IF section.teaching_method = None THEN Raise("AttributeError")
    ELSE Return(<<section.teaching_method, "-", section.section_number>>)

\* The body of Course.section_codes: {section.code for section in self.sections}
CourseSectionCodes(course) ==
    LET codes == [i \in 1..Len(course.sections) |-> SectionCode(course.sections[i])]
    IN  IF \E i \in 1..Len(codes) : ~codes[i].ok
        THEN Raise("AttributeError")
        ELSE Return({codes[i].val : i \in 1..Len(codes)})

\* course.section_codes behind @lru_cache: the key is the Course object, whose
\* hash and equality are those of its primary key; an exception is not cached
SectionCodesCached(cache, course) ==
    IF course.id \in DOMAIN cache
    THEN [result |-> Return(cache[course.id]), cache |-> cache]
    ELSE LET r == CourseSectionCodes(course)
         IN  [result |-> r,
              cache  |-> IF r.ok THEN MapPut(cache, course.id, r.val) ELSE cache]

-----------------------------------------------------------------------------
(* sqrl/graphql/schemas/timetable.py: the timetable mutations.  Each          *)
(* operator gives the outcome of mutate() and the collection and the cache   *)
(* it leaves.                                                                *)

MaxTimetables == 2
MaxListed == 2

\* petname.Generate() and secrets.token_urlsafe() for the n-th timetable: some
\* name, and a token no other timetable has
PetName == <<"petname">>
TokenUrlsafe(n) == n

\* UserTimetable(): the defaults of the fields, the id given by the first save
UserTimetable(n) ==
    [id |-> n, name |-> PetName, key |-> TokenUrlsafe(n), sections |-> EmptyMap,
     deleted |-> FALSE]

\* Document.objects.get(pk=value): the document, DoesNotExist when there is none
ObjectsGet(collection, pk, value) ==
    IF \E d \in collection : d[pk] = value
    THEN Return(CHOOSE d \in collection : d[pk] = value)
    ELSE Raise("DoesNotExist")

\* Mutant: any key is accepted
KeyMatchesAny(timetable, key) == TRUE

\* timetable.key != key is false
KeyMatches(timetable, key) == timetable.key = key

\* Document.delete()
Delete(collection, doc, pk) == {d \in collection : d[pk] # doc[pk]}

\* What a mutation leaves: its result or exception, the collection, the cache,
\* and the old sections it popped from the timetable
Outcome(result, docs, cache, popped) ==
    [result |-> result, docs |-> docs, cache |-> cache, popped |-> popped]

\* The timetable, checked against the key, or the exception raised
Authorized(docs, id, key) ==
    LET timetable == ObjectsGet(docs, "id", id)
    IN  IF ~timetable.ok THEN timetable
        ELSE IF ~KeyMatches(timetable.val, key) THEN Raise("key did not match")
        ELSE timetable

\* CreateTimetableMutation.mutate; n is the id the save gives the document
CreateTimetable(docs, cache, n, name) ==
    LET timetable == IF name.t # "NoneType" THEN [UserTimetable(n) EXCEPT !.name = name.v]
                     ELSE UserTimetable(n)
    IN  Outcome(Return(timetable), Save(docs, timetable, "id"), cache, <<>>)

\* SetTimetableNameMutation.mutate
SetTimetableName(docs, cache, id, key, name) ==
    LET timetable == Authorized(docs, id, key)
    IN  IF ~timetable.ok THEN Outcome(timetable, docs, cache, <<>>)
        ELSE LET named == [timetable.val EXCEPT !.name = name.v]
             IN  Outcome(Return(named), Save(docs, named, "id"), cache, <<>>)

\* f'Copy of {timetable.name}'
CopyOf(name) == <<"Copy of">> \o name

\* DuplicateTimetableMutation.mutate: the name argument is assigned first and
\* the 'Copy of' name after it
DuplicateTimetable(docs, cache, n, id, name) ==
    LET timetable == ObjectsGet(docs, "id", id)
    IN  IF ~timetable.ok THEN Outcome(timetable, docs, cache, <<>>)
        ELSE LET named == IF name.t # "NoneType"
                          THEN [UserTimetable(n) EXCEPT !.name = name.v]
                          ELSE UserTimetable(n)
                 next_timetable == [named EXCEPT !.sections = timetable.val.sections,
                                                 !.name = CopyOf(timetable.val.name)]
             IN  Outcome(Return(next_timetable), Save(docs, next_timetable, "id"), cache, <<>>)

\* DeleteTimetableMutation.mutate
DeleteTimetable(docs, cache, id, key) ==
    LET timetable == Authorized(docs, id, key)
    IN  IF ~timetable.ok THEN Outcome(timetable, docs, cache, <<>>)
        ELSE Outcome(timetable, Delete(docs, timetable.val, "id"), cache, <<>>)

\* dict.pop(key) of a dict given as a function
MapPop(f, k) == [x \in DOMAIN f \ {k} |-> f[x]]

\* if course_id not in timetable.sections: timetable.sections[course_id] = []
WithCourse(sections, course_id) ==
    IF course_id \in DOMAIN sections THEN sections ELSE MapPut(sections, course_id, <<>>)

\* RemoveCourseTimetableMutation.mutate
RemoveCourseTimetable(docs, cache, id, key, course_id) ==
    LET timetable == Authorized(docs, id, key)
    IN  IF ~timetable.ok THEN Outcome(timetable, docs, cache, <<>>)
        ELSE LET removed == [timetable.val EXCEPT
                                !.sections = MapPop(WithCourse(@, course_id), course_id)]
             IN  Outcome(Return(removed), Save(docs, removed, "id"), cache, <<>>)

\* The loop over the given codes: course.section_codes is evaluated for every
\* code, and the first code it does not hold raises
CheckSections(cache, course, sections) ==
    IF sections = <<>> THEN [result |-> Return(sections), cache |-> cache]
    ELSE LET codes == SectionCodesCached(cache, course)
         IN  IF ~codes.result.ok THEN codes
             ELSE IF \E i \in 1..Len(sections) : sections[i] \notin codes.result.val
             THEN [result |-> Raise("could not find section"), cache |-> codes.cache]
             ELSE [result |-> Return(sections), cache |-> codes.cache]

\* AddSectionsTimetableMutation.mutate
AddSectionsTimetable(docs, courseCollection, cache, id, key, course_id, sections) ==
    LET timetable == Authorized(docs, id, key)
        course    == ObjectsGet(courseCollection, "id", course_id)
    IN  IF ~timetable.ok THEN Outcome(timetable, docs, cache, <<>>)
        ELSE IF ~course.ok THEN Outcome(course, docs, cache, <<>>)
        ELSE LET checked == CheckSections(cache, course.val, sections)
                 old     == WithCourse(timetable.val.sections, course_id)
                 added   == [timetable.val EXCEPT
                                !.sections = [old EXCEPT ![course_id] = @ \o sections]]
             IN  IF ~checked.result.ok THEN Outcome(checked.result, docs, checked.cache, <<>>)
                 ELSE Outcome(Return(added), Save(docs, added, "id"), checked.cache, <<>>)

\* section_code.split('-')[0]
TeachingMethodOf(section_code) == Split(section_code, "-")[1]

\* Mutant: no old section is removed
CleanOldSectionsNone(old_sections, teaching_methods_to_remove) == old_sections

\* The loop from the last index to the first that pops every old section whose
\* teaching method is to be removed: the others stay, in their order
CleanOldSections(old_sections, teaching_methods_to_remove) ==
    SelectSeq(old_sections, LAMBDA c : TeachingMethodOf(c) \notin teaching_methods_to_remove)

\* SetSectionsTimetableMutation.mutate
SetSectionsTimetable(docs, courseCollection, cache, id, key, course_id, sections) ==
    LET timetable == Authorized(docs, id, key)
        course    == ObjectsGet(courseCollection, "id", course_id)
    IN  IF ~timetable.ok THEN Outcome(timetable, docs, cache, <<>>)
        ELSE IF ~course.ok THEN Outcome(course, docs, cache, <<>>)
        ELSE LET checked == CheckSections(cache, course.val, sections)
                 old     == WithCourse(timetable.val.sections, course_id)
                 teaching_methods_to_remove ==
                     {TeachingMethodOf(sections[i]) : i \in 1..Len(sections)}
                 kept    == CleanOldSections(old[course_id], teaching_methods_to_remove)
                 popped  == SelectSeq(old[course_id],
                                LAMBDA c : \A i \in 1..Len(kept) : kept[i] # c)
                 set     == [timetable.val EXCEPT
                                !.sections = [old EXCEPT ![course_id] = kept \o sections]]
             IN  IF ~checked.result.ok THEN Outcome(checked.result, docs, checked.cache, <<>>)
                 ELSE Outcome(Return(set), Save(docs, set, "id"), checked.cache, popped)

-----------------------------------------------------------------------------
(* The API process resolving one mutation against a stored collection: the   *)
(* collection and the cache are drawn in the initial state, from what        *)
(* earlier create, set-name and add-sections calls leave, and one action     *)
(* resolves the mutation.                                                    *)

SecLEC2 == [teachingMethod |-> "LEC", sectionNumber |-> "0201", subtitle |-> ""]

\* The course as first synced, with two lectures and a tutorial; CSC108b is
\* what the upstream has of it later, one lecture only
CSC108c == RawCourse("CSC108H1", "F", "CSC", "Intro", <<SecLEC, SecLEC2, SecTUT>>)

\* The Course object _parse_course makes of a course of the session 20219
TTCourse(raw) == ParseCourse(<<CSC1, MAT1>>, CoursesResponse(S20219, <<raw>>)[1]).val

\* The Organisation and Course collections a sync of CSC108c and MAT137 leaves
TTSynced ==
    /\ orgDocs = {OrganisationDoc(CSC1), OrganisationDoc(MAT1)}
    /\ courseDocs = {CourseDoc(TTCourse(CSC108c)), CourseDoc(TTCourse(MAT137))}

\* The section codes of the stored course with that id
StoredCodes(id) == CourseSectionCodes(ObjectsGet(courseDocs, "id", id).val).val

\* The arguments of the mutations
TimetableIds == 1..MaxTimetables
\* The key of the timetable with that id, and a key no timetable has
KeyArgs(id) == {TokenUrlsafe(id), 0}
NameArgs == {PyNone, PyStr(<<"mine">>)}
CSC108Id == "CSC108H1-F-20219"
MAT137Id == "MAT137Y1-Y-20219"
CourseIdArgs == {CSC108Id, MAT137Id, "XXX999H1-F-20219"}
L1 == <<"LEC", "-", "0101">>
L2 == <<"LEC", "-", "0201">>
T1 == <<"TUT", "-", "0101">>
L9 == <<"LEC", "-", "9999">>
SectionArgs == {<<>>, <<L1>>, <<L2>>, <<T1>>, <<L9>>, <<L1, T1>>, <<L1, L9>>, <<T1, L2>>}

\* The arguments of one mutation; those it does not take are left at a default
Args(id, key, name, course_id, sections) ==
    [id |-> id, key |-> key, name |-> name, course_id |-> course_id, sections |-> sections]

\* The section maps a stored timetable may hold: for the first course no list
\* or a list of its codes without repetition, for the second no list or its lecture
StoredSections ==
    LET lists == {l \in StringsUpTo(StoredCodes(CSC108Id), MaxListed) :
                     \A a, b \in 1..Len(l) : a # b => l[a] # l[b]}
        first == {EmptyMap} \cup {MapPut(EmptyMap, CSC108Id, l) : l \in lists}
    IN  first \cup {MapPut(f, MAT137Id, <<L1>>) : f \in first}

\* The timetable created first: with such sections, or renamed
FirstTimetables ==
    {[UserTimetable(1) EXCEPT !.sections = f] : f \in StoredSections}
        \cup {[UserTimetable(1) EXCEPT !.name = <<"mine">>]}

\* A timetable created second that lists the tutorial
SecondTimetable == [UserTimetable(2) EXCEPT !.sections = MapPut(EmptyMap, CSC108Id, <<T1>>)]

\* The cache of the process once it has evaluated section_codes of each course
WarmCache == [c \in {CSC108Id, MAT137Id} |-> StoredCodes(c)]

InitTT ==
    /\ UpstreamInit
    /\ WorkerInit
    /\ TTSynced
    /\ RelInit([r \in Runs |-> <<>>])
    /\ NoCall
    /\ NoCommand
    /\ ttDocs \in {{}} \cup {{t} : t \in FirstTimetables}
                      \cup {{t, SecondTimetable} : t \in FirstTimetables}
    /\ ttCreated = Cardinality(ttDocs)
    /\ sectionCodesCache \in {EmptyMap, WarmCache}
    /\ ttOut = NoMutation

\* _sync_course of a sync run by the worker or the command: the Course
\* collection is rewritten, the API process is not told
TTResync(raw) ==
    /\ orgDocs' = Save(orgDocs, OrganisationDoc(TTCourse(raw).organisation), "code")
    /\ courseDocs' = Save(courseDocs, CourseDoc(TTCourse(raw)), "id")
    /\ UNCHANGED << upVars, upChanges, proc, activeJobs, boots, source, jobVars,
                    lastError, histVars >>
    /\ UNCHANGED relVars
    /\ UNCHANGED fnVars
    /\ UNCHANGED cliVars
    /\ UNCHANGED ttVars

\* No list of a stored timetable is longer than the model follows
Listed(docs) ==
    \A d \in docs : \A c \in DOMAIN d.sections : Len(d.sections[c]) <= MaxListed

\* The mutation op has been resolved with those arguments and the outcome r;
\* before and course are the collection and the Course document it found
Mutated(op, args, r) ==
    /\ ttDocs' = r.docs
    /\ sectionCodesCache' = r.cache
    /\ ttOut' = [op |-> op, args |-> args,
                 err |-> IF r.result.ok THEN NoError ELSE r.result.err,
                 before |-> ttDocs,
                 course |-> {d \in courseDocs : d.id = args.course_id},
                 popped |-> r.popped]
    /\ UNCHANGED docVars
    /\ UNCHANGED relVars
    /\ UNCHANGED fnVars
    /\ UNCHANGED cliVars

TTCreate(name) ==
    /\ ttCreated < MaxTimetables
    /\ ttCreated' = ttCreated + 1
    /\ Mutated("create", Args(0, 0, name, "", <<>>),
               CreateTimetable(ttDocs, sectionCodesCache, ttCreated + 1, name))

TTSetName(id, key, name) ==
    /\ name.t # "NoneType"
    /\ UNCHANGED ttCreated
    /\ Mutated("set_name", Args(id, key, name, "", <<>>),
               SetTimetableName(ttDocs, sectionCodesCache, id, key, name))

TTDuplicate(id, name) ==
    /\ ttCreated < MaxTimetables
    /\ LET r == DuplicateTimetable(ttDocs, sectionCodesCache, ttCreated + 1, id, name)
       IN  /\ ttCreated' = IF r.result.ok THEN ttCreated + 1 ELSE ttCreated
           /\ Mutated("duplicate", Args(id, 0, name, "", <<>>), r)

TTDelete(id, key) ==
    /\ UNCHANGED ttCreated
    /\ Mutated("delete", Args(id, key, PyNone, "", <<>>),
               DeleteTimetable(ttDocs, sectionCodesCache, id, key))

TTRemoveCourse(id, key, course_id) ==
    /\ UNCHANGED ttCreated
    /\ Mutated("remove_course", Args(id, key, PyNone, course_id, <<>>),
               RemoveCourseTimetable(ttDocs, sectionCodesCache, id, key, course_id))

TTAddSections(id, key, course_id, sections) ==
    /\ UNCHANGED ttCreated
    /\ LET r == AddSectionsTimetable(ttDocs, courseDocs, sectionCodesCache,
                                     id, key, course_id, sections)
       IN  /\ Listed(r.docs)
           /\ Mutated("add_sections", Args(id, key, PyNone, course_id, sections), r)

TTSetSections(id, key, course_id, sections) ==
    /\ UNCHANGED ttCreated
    /\ LET r == SetSectionsTimetable(ttDocs, courseDocs, sectionCodesCache,
                                     id, key, course_id, sections)
       IN  /\ Listed(r.docs)
           /\ Mutated("set_sections", Args(id, key, PyNone, course_id, sections), r)

\* No mutation has been resolved yet
Idle == ttOut = NoMutation

NextTT ==
    \/ \E name \in NameArgs : Idle /\ TTCreate(name)
    \/ \E id \in TimetableIds : \E key \in KeyArgs(id), name \in NameArgs :
          Idle /\ TTSetName(id, key, name)
    \/ \E id \in TimetableIds, name \in NameArgs : Idle /\ TTDuplicate(id, name)
    \/ \E id \in TimetableIds : \E key \in KeyArgs(id) : Idle /\ TTDelete(id, key)
    \/ \E id \in TimetableIds : \E key \in KeyArgs(id), course_id \in CourseIdArgs :
          Idle /\ TTRemoveCourse(id, key, course_id)
    \/ \E id \in TimetableIds : \E key \in KeyArgs(id), course_id \in CourseIdArgs,
          sections \in SectionArgs : Idle /\ TTAddSections(id, key, course_id, sections)
    \/ \E id \in TimetableIds : \E key \in KeyArgs(id), course_id \in CourseIdArgs,
          sections \in SectionArgs : Idle /\ TTSetSections(id, key, course_id, sections)

SpecTT == InitTT /\ [][NextTT]_vars

-----------------------------------------------------------------------------
(* The API process serving add-sections and set-sections calls on the first  *)
(* timetable, one after the other, while syncs rewrite the Course collection *)

\* The versions of CSC108H1 the upstream has over time
TTVersions == {CSC108c, CSC108b}

InitTTSync ==
    /\ UpstreamInit
    /\ WorkerInit
    /\ TTSynced
    /\ RelInit([r \in Runs |-> <<>>])
    /\ NoCall
    /\ NoCommand
    /\ ttDocs = {UserTimetable(1)}
    /\ ttCreated = 1
    /\ sectionCodesCache = EmptyMap
    /\ ttOut = NoMutation

\* The codes the calls give
SyncSectionArgs == {<<L1>>, <<L2>>, <<T1>>, <<L1, T1>>}

NextTTSync ==
    \/ \E raw \in TTVersions : TTResync(raw)
    \/ \E sections \in SyncSectionArgs :
          TTAddSections(1, TokenUrlsafe(1), CSC108Id, sections)
    \/ \E sections \in SyncSectionArgs :
          TTSetSections(1, TokenUrlsafe(1), CSC108Id, sections)
    \/ TTRemoveCourse(1, TokenUrlsafe(1), CSC108Id)

SpecTTSync == InitTTSync /\ [][NextTTSync]_vars

-----------------------------------------------------------------------------
(* Properties of the timetable mutations *)

\* The timetable a mutation was called for, before the call and after it
Before == ObjectsGet(ttOut.before, "id", ttOut.args.id).val
After == ObjectsGet(ttDocs, "id", ttOut.args.id).val

\* The codes of a list whose teaching method is, or is not, among the methods
OfMethods(list, methods) == SelectSeq(list, LAMBDA c : Split(c, "-")[1] \in methods)
OfOtherMethods(list, methods) == SelectSeq(list, LAMBDA c : Split(c, "-")[1] \notin methods)

\* C23: after a successful SetSectionsTimetable, the sections of the course
\* whose teaching method is that of a given section are exactly the given
\* sections (the old ones are gone, the given ones are there), the sections
\* of the course with other teaching methods are as they were, and so are the
\* sections of every other course.
SetSectionsReplacesSameMethod ==
    (ttOut.op = "set_sections" /\ ttOut.err = NoError) =>
        LET course_id == ttOut.args.course_id
            given     == ttOut.args.sections
            methods   == {Split(given[i], "-")[1] : i \in 1..Len(given)}
            old       == IF course_id \in DOMAIN Before.sections
                         THEN Before.sections[course_id] ELSE <<>>
        IN  /\ course_id \in DOMAIN After.sections
            /\ OfMethods(After.sections[course_id], methods) = given
            /\ \A i \in 1..Len(given) :
                  \E j \in 1..Len(After.sections[course_id]) :
                      After.sections[course_id][j] = given[i]
            /\ OfOtherMethods(After.sections[course_id], methods) = OfOtherMethods(old, methods)
            /\ DOMAIN After.sections = DOMAIN Before.sections \cup {course_id}
            /\ \A c \in DOMAIN Before.sections \ {course_id} :
                  After.sections[c] = Before.sections[c]

\* The second lecture set in a timetable that listed the first lecture and the
\* tutorial of the course, and a lecture of another course
SetSectionsReplacesSameMethodWitness ==
    /\ ttOut.op = "set_sections"
    /\ ttOut.err = NoError
    /\ ttOut.args.sections = <<L2>>
    /\ Before.sections = MapPut(MapPut(EmptyMap, CSC108Id, <<L1, T1>>), MAT137Id, <<L1>>)
    /\ ttOut.popped = <<L1>>
    /\ After.sections = MapPut(MapPut(EmptyMap, CSC108Id, <<T1, L2>>), MAT137Id, <<L1>>)

\* The mutations that take a key
KeyGuarded == {"set_name", "delete", "remove_course", "add_sections", "set_sections"}

\* C27: a key-guarded mutation called for a stored timetable with a key that
\* is not the timetable's fails with an error and leaves the collection (the
\* timetable's name, sections and existence) as it was.
WrongKeyRejected ==
    (/\ ttOut.op \in KeyGuarded
     /\ \E d \in ttOut.before : d.id = ttOut.args.id /\ d.key # ttOut.args.key) =>
        /\ ttOut.err # NoError
        /\ ttDocs = ttOut.before

\* A delete with a wrong key, of a timetable that lists sections
WrongKeyRejectedWitness ==
    /\ ttOut.op = "delete"
    /\ ttOut.err = "key did not match"
    /\ ttOut.args.key # Before.key
    /\ After.sections = MapPut(EmptyMap, CSC108Id, <<L1, T1>>)

\* C30: a successful DuplicateTimetable leaves the collection as it was but
\* for one new timetable, with an id and a key no stored timetable has, the
\* sections of the source, and the supplied name when one is given.
DuplicateTakesGivenName ==
    (ttOut.op = "duplicate" /\ ttOut.err = NoError) =>
        /\ ttOut.before \subseteq ttDocs
        /\ Cardinality(ttDocs \ ttOut.before) = 1
        /\ \A new \in ttDocs \ ttOut.before :
              /\ \A d \in ttOut.before : d.id # new.id /\ d.key # new.key
              /\ new.sections = Before.sections
              /\ ttOut.args.name.t # "NoneType" => new.name = ttOut.args.name.v

-----------------------------------------------------------------------------
(* Properties of Course.section_codes under syncs *)

\* C26: section_codes evaluated on a Course loaded with a stored id gives the
\* codes of the sections stored for that id now.
SectionCodesCurrent ==
    \A d \in courseDocs :
        SectionCodesCached(sectionCodesCache, d).result = CourseSectionCodes(d)

\* C28: an AddSectionsTimetable or SetSectionsTimetable call whose list holds
\* a code that is no section code of the course fails and leaves the
\* collection as it was.
SectionMutationsAllOrNothing ==
    (/\ ttOut.op \in {"add_sections", "set_sections"}
     /\ \E d \in ttOut.course :
           \E i \in 1..Len(ttOut.args.sections) :
               ttOut.args.sections[i] \notin CourseSectionCodes(d).val) =>
        /\ ttOut.err # NoError
        /\ ttDocs = ttOut.before

-----------------------------------------------------------------------------
(* Properties of Section.code over the parsed sections *)

\* C29: Section.code is defined for every section _parse_section returns, and
\* section_codes for every course _parse_course returns (what the sync
\* stores), a section whose payload has no teachingMethod included.
SectionCodeDefined ==
    /\ (fnName = "parse_section" /\ fnDone /\ fnOut.ok) => SectionCode(fnOut.val).ok
    /\ (fnName = "parse_course" /\ fnDone /\ fnOut.ok) => CourseSectionCodes(fnOut.val).ok

-----------------------------------------------------------------------------
(* Properties of the phases of the document-store sync *)

\* C24: no Organisation or Course is written before the courses of every
\* organisation have been fetched and parsed: the store changes only in the
\* write phase, which starts when the crawl has gone through every
\* organisation.  So a failure in the crawl leaves the store as it was before
\* the run, and a failure in the write phase leaves the records saved so far.
CrawlPrecedesWrites ==
    [][ /\ Store' # Store => proc = "write" /\ orgIdx = Len(Src.organisations)
        /\ (proc = "crawl" /\ proc' = "crashed") => Store' = Store
        /\ (proc = "write" /\ proc' = "crashed") => Store' = Store ]_vars

\* The first run of a process has ended with a failing save: one of the two
\* fetched courses is stored, the other is not
CrawlPrecedesWritesWitness ==
    /\ proc = "crashed"
    /\ lastError = "OperationError"
    /\ boots = 1
    /\ Len(runOK) = 2
    /\ Cardinality(courseDocs) = 1
    /\ \E i \in 1..Len(runOK) : \A d \in courseDocs : d.id # CourseId(runOK[i])

\* The keys of a collection
KeysOf(collection, pk) == {d[pk] : d \in collection}

\* C25: a sync never removes a Course or an Organisation: a step leaves every
\* stored key stored, and leaves unchanged every record but those of the
\* courses (and their organisations) the run is writing.
SyncNeverRemoves ==
    [][ /\ KeysOf(courseDocs, "id") \subseteq KeysOf(courseDocs', "id")
        /\ KeysOf(orgDocs, "code") \subseteq KeysOf(orgDocs', "code")
        /\ \A d \in courseDocs \ courseDocs' :
              proc = "write" /\ \E i \in 1..Len(courses) : courses[i].id = d.id
        /\ \A d \in orgDocs \ orgDocs' :
              proc = "write" /\ \E i \in 1..Len(courses) : courses[i].organisation.code = d.code
        /\ KeysOf(relStore.courses, "id") \subseteq KeysOf(relStore.courses', "id")
        /\ KeysOf(relStore.orgs, "code") \subseteq KeysOf(relStore.orgs', "code") ]_vars

\* A run has completed, and a course stored by an earlier run, which the
\* upstream no longer lists, is still stored
SyncNeverRemovesWitness ==
    /\ proc = "sleep"
    /\ cleanRuns >= 1
    /\ Len(runOK) >= 1
    /\ \E d \in courseDocs : \A i \in 1..Len(runOK) : CourseId(runOK[i]) # d.id

====
